---------------------------- MODULE Spec2Model ----------------------------
(***************************************************************************)
(* WSNet2 lobby: property queries, the room filter and JoinAtRandom.       *)
(*                                                                         *)
(* Byte strings are sequences of naturals 0..255.  A props dict is a total *)
(* function from the keys to byte strings in which a missing key maps to   *)
(* the empty string (a Go map lookup of a missing key yields a nil slice). *)
(* A run-time panic of the Go code is the result "panic".                  *)
(***************************************************************************)
EXTENDS Integers, Sequences, FiniteSets, TLC

(* ------------------------------ bounds -------------------------------- *)

\* Longest list (List, Bools, Bytes, UShorts) among the stored values.
MaxListLen == 2

\* Most PropQuery entries in one PropQueries group.
MaxGroupLen == 2

\* Most rooms in a room list handed to filter.
MaxRooms == 2

\* Most rooms in the room cache snapshot JoinAtRandom works on.
MaxCached == 2

(* --------------------------- binary codec ----------------------------- *)
(* Type tags of package binary, in the order the codec lists its types.   *)

TypeNull == 0

TypeTrue == 1

TypeFalse == 2

TypeByte == 3

TypeSByte == 4

TypeUShort == 5

TypeList == 16

TypeBools == 18

TypeBytes == 19

TypeUShorts == 21

\* binary.NumListElementType: list tag -> element tag (ok = FALSE otherwise)
NumListTypes == {TypeBytes, TypeUShorts}

NumListElementType(t) == IF t = TypeBytes THEN TypeByte ELSE TypeUShort

\* binary.NumTypeDataSize: bytes of data of one element
NumTypeDataSize(t) == IF t = TypeByte THEN 1 ELSE 2

\* 16 bit big-endian length / count
U16(n) == <<n \div 256, n % 256>>

GetU16(b, i) == b[i] * 256 + b[i + 1]

RECURSIVE Pow2(_)
Pow2(n) == IF n = 0 THEN 1 ELSE 2 * Pow2(n - 1)

RECURSIVE Concat(_)
Concat(ss) == IF ss = <<>> THEN <<>> ELSE Head(ss) \o Concat(Tail(ss))

MarshalNull == <<TypeNull>>

MarshalBool(b) == IF b THEN <<TypeTrue>> ELSE <<TypeFalse>>

MarshalByte(v) == <<TypeByte, v>>

\* signed values are stored offset so that byte order is numeric order
MarshalSByte(v) == <<TypeSByte, v + 128>>

MarshalUShort(v) == <<TypeUShort>> \o U16(v)

\* {tag, u16 count, elements packed at fixed width}
MarshalBytes(vs) == <<TypeBytes>> \o U16(Len(vs)) \o vs

MarshalUShorts(vs) == <<TypeUShorts>> \o U16(Len(vs)) \o Concat([i \in 1..Len(vs) |-> U16(vs[i])])

\* {tag, u16 count, bits packed 8 to a byte, most significant bit first}
PackedByte(bs, j) ==
    LET Bit(i) == IF i <= Len(bs) /\ bs[i] THEN Pow2(7 - ((i - 1) % 8)) ELSE 0
        Base == 8 * (j - 1)
    IN  Bit(Base + 1) + Bit(Base + 2) + Bit(Base + 3) + Bit(Base + 4)
        + Bit(Base + 5) + Bit(Base + 6) + Bit(Base + 7) + Bit(Base + 8)

MarshalBools(bs) ==
    <<TypeBools>> \o U16(Len(bs)) \o [j \in 1..((Len(bs) + 7) \div 8) |-> PackedByte(bs, j)]

\* {tag, u16 count, each element as u16 length + its bytes}
MarshalList(es) ==
    <<TypeList>> \o U16(Len(es)) \o Concat([i \in 1..Len(es) |-> U16(Len(es[i])) \o es[i]])

\* binary.UnmarshalAs(src, TypeTrue, TypeFalse): the bool, or an error
UnmarshalAsBool(src) ==
    IF src = <<>> \/ src[1] \notin {TypeTrue, TypeFalse}
    THEN [err |-> TRUE, v |-> FALSE]
    ELSE [err |-> FALSE, v |-> (src[1] = TypeTrue)]

\* binary.UnmarshalAs(src, TypeBools): the []bool, or an error
UnmarshalAsBools(src) ==
    IF Len(src) < 3 \/ src[1] # TypeBools
    THEN [err |-> TRUE, v |-> <<>>]
    ELSE LET n == GetU16(src, 2)
         IN  IF Len(src) < 3 + ((n + 7) \div 8)
             THEN [err |-> TRUE, v |-> <<>>]
             ELSE [err |-> FALSE,
                   v |-> [i \in 1..n |->
                            (src[3 + ((i + 7) \div 8)] \div Pow2(7 - ((i - 1) % 8))) % 2 = 1]]

\* the length-prefixed elements of a List body; ShortBody marks a body that ends early
ShortBody == <<-1>>

RECURSIVE ListBody(_, _)
ListBody(b, n) ==
    IF n = 0 THEN <<>>
    ELSE IF Len(b) < 2 \/ Len(b) < 2 + GetU16(b, 1) THEN <<ShortBody>>
    ELSE LET l == GetU16(b, 1)
         IN  <<SubSeq(b, 3, 2 + l)>> \o ListBody(SubSeq(b, 3 + l, Len(b)), n - 1)

\* binary.UnmarshalAs(src, TypeList): the binary.List ([][]byte), or an error
UnmarshalAsList(src) ==
    IF Len(src) < 3 \/ src[1] # TypeList
    THEN [err |-> TRUE, v |-> <<>>]
    ELSE LET es == ListBody(SubSeq(src, 4, Len(src)), GetU16(src, 2))
         IN  IF \E i \in 1..Len(es) : es[i] = ShortBody
             THEN [err |-> TRUE, v |-> <<>>]
             ELSE [err |-> FALSE, v |-> es]

(* --------------------------- property query --------------------------- *)

OpEqual == 0

OpNot == 1

OpLessThan == 2

OpLessThanOrEqual == 3

OpGreaterThan == 4

OpGreaterThanOrEqual == 5

OpContain == 6

OpNotContain == 7

\* an OpType value outside the eight constants
OpUnsupported == OpNotContain + 1

\* a Go bool as a match result
B(b) == IF b THEN "true" ELSE "false"

\* bytes.Compare: lexicographic, -1 / 0 / +1
RECURSIVE Compare(_, _)
Compare(a, b) ==
    IF a = <<>> /\ b = <<>> THEN 0
    ELSE IF a = <<>> THEN -1
    ELSE IF b = <<>> THEN 1
    ELSE IF a[1] < b[1] THEN -1
    ELSE IF a[1] > b[1] THEN 1
    ELSE Compare(Tail(a), Tail(b))

\* PropQuery.containBool
containBool(q, val) ==
    LET qv   == UnmarshalAsBool(q.Val)
        list == UnmarshalAsBools(val)
    IN  IF qv.err THEN B(q.Op = OpNotContain)
        ELSE IF list.err THEN B(q.Op = OpNotContain)
        ELSE IF \E i \in 1..Len(list.v) : list.v[i] = qv.v
             THEN B(q.Op = OpContain)
             ELSE B(q.Op = OpNotContain)

\* variant: the loop advances one byte at a time instead of one element
ContainNumStride_One(elemSize) == 1

\* the loop of containNum: the element windows val[i:i+elemSize], i = hdrSize, hdrSize+elemSize, ...
\* (0-based i; a window reaching past the slice is a slice bounds panic, which no
\* well-formed list reaches)
ContainNumStride(elemSize) == elemSize

containNumWindows(val, elemSize) ==
    {i \in 3..(Len(val) - 1) : (i - 3) % ContainNumStride(elemSize) = 0}

\* variant: the type check of containNum is missing
ElemTypeMismatch_Never(elemType, queryType) == FALSE

\* the type check of containNum: elemType != queryType
ElemTypeMismatch(elemType, queryType) == elemType # queryType

\* PropQuery.containNum
containNum(q, val, elemType) ==
    IF q.Val = <<>> THEN "panic"
    ELSE IF ElemTypeMismatch(elemType, q.Val[1]) THEN B(q.Op = OpNotContain)
    ELSE LET elemSize == NumTypeDataSize(elemType)
             qData    == Tail(q.Val)
             W        == containNumWindows(val, elemSize)
             Hit(i)   == i + elemSize <= Len(val) /\ SubSeq(val, i + 1, i + elemSize) = qData
             \* the first window that matches or overruns ends the loop
             Stop     == {i \in W : Hit(i) \/ i + elemSize > Len(val)}
             First    == CHOOSE i \in Stop : \A j \in Stop : i <= j
         IN  IF Stop = {} THEN B(q.Op = OpNotContain)
             ELSE IF Hit(First) THEN B(q.Op = OpContain)
             ELSE "panic"

\* the fall-through of contain for a stored value that is no list
NotAListResult(q) == "false"

\* PropQuery.contain
contain(q, val) ==
    IF val = <<>> THEN "panic"
    ELSE LET listtype == val[1]
         IN  IF listtype = TypeNull THEN B(q.Op = OpNotContain)
             ELSE IF listtype = TypeList
                  THEN LET l == UnmarshalAsList(val)
                       IN  IF l.err THEN B(q.Op = OpNotContain)
                           ELSE IF \E i \in 1..Len(l.v) : l.v[i] = q.Val
                                THEN B(q.Op = OpContain)
                                ELSE B(q.Op = OpNotContain)
             ELSE IF listtype = TypeBools THEN containBool(q, val)
             ELSE IF listtype \in NumListTypes
                  THEN containNum(q, val, NumListElementType(listtype))
             ELSE NotAListResult(q)

\* the comparison switch of PropQuery.match on ret = bytes.Compare(val, q.Val)
CompareResult(op, ret) ==
    IF op = OpEqual THEN B(ret = 0)
    ELSE IF op = OpNot THEN B(ret # 0)
    ELSE IF op = OpLessThan THEN B(ret < 0)
    ELSE IF op = OpLessThanOrEqual THEN B(ret <= 0)
    ELSE IF op = OpGreaterThan THEN B(ret > 0)
    ELSE IF op = OpGreaterThanOrEqual THEN B(ret >= 0)
    ELSE "error"

\* PropQuery.match: "true" / "false", "error" (unsupported operator) or "panic"
PropQuery_match(q, val) ==
    IF q.Op = OpContain \/ q.Op = OpNotContain
    THEN contain(q, val)
    ELSE CompareResult(q.Op, Compare(val, q.Val))

\* variant: the loop ends on the first match instead of the first non-match
GroupStops_OnMatch(m) == m # "false"

\* what PropQueries.match does with one query's result before going on:
\* an error or a non-match ends the loop
GroupStops(m) == m # "true"

\* PropQueries.match: "true" / "false", "error" or "panic"
RECURSIVE PropQueries_match(_, _)
PropQueries_match(pqs, props) ==
    IF pqs = <<>> THEN "true"
    ELSE LET q == Head(pqs)
             m == PropQuery_match(q, props[q.Key])
         IN  IF m = "panic" THEN "panic"
             ELSE IF GroupStops(m) THEN m
             ELSE PropQueries_match(Tail(pqs), props)

(* ------------------------------- state -------------------------------- *)

VARIABLES
    qarg,   \* PropQuery.match: the stored value and the query
    qret,   \* its result, "none" before the call
    garg,   \* PropQueries.match: the props dict and the group
    gret,   \* its result, "none" before the call
    fargs,  \* filter: rooms, props, queries, limit, checkJoinable, checkWatchable
    fret,   \* its result, "none" before the call
    roomCache,  \* what roomCache.GetRooms answers: err, rooms, props
    gameCache,  \* the host ids gameCache.Get finds
    rpcFate,    \* per room id, how the dial and the Game.Join RPC for it end
    reqQueries, \* the queries argument of the lobby call
    ctxDone,    \* the caller's context is done (deadline or cancellation)
    pc,         \* where the lobby call stands: "start", "loop", "done"
    shuffled,   \* JoinAtRandom: filtered after the shuffle (indices into roomCache.rooms)
    next,       \* JoinAtRandom: the position of the next candidate
    attempts,   \* JoinAtRandom: the join calls made, each with its result
    rpcLog,     \* the RPCs dispatched to game and hub hosts: host and room
    result,     \* what the lobby call returned
    apps,       \* RoomService.apps: the registered app ids
    dbRooms,    \* the rows of the room table
    hubRows,    \* the rows of the hub table for the room: host_id and watchers
    hubCache,   \* the host ids hubCache.Get finds
    call,       \* the lobby call being served: its operation and arguments
    creates,    \* Repository.CreateRoom: per call, where it stands and its locals
    repoRooms,  \* Repository.rooms: per room id, the room that is indexed under it
    repoClients,\* Repository.clients: per client id and room id, the client indexed
    mu,         \* Repository.mu: the call that holds it, <<>> when it is free
    removes,    \* per room, its event loop and the RemoveRoom call the loop ends with
    clients,    \* the Clients of one room: user, the joinRoom call, the Client's loop
    infoCall,   \* newRoomInfo: the RoomOption of the call, and where the call stands
    roomState,  \* the room of the event loop: players in join order, master, seq
    msgCh,      \* Room.msgCh: the messages sent to the loop and not yet received
    joins,      \* Repository.joinRoom: per call, where it stands and its locals
    evlog,      \* the events one client of the room has been sent, as wire bytes
    counter,    \* runSoak: roomCount, and the counter channel: capacity and slots held
    goroutines, \* runSoak: per started room, where its goroutine stands
    mainPc,     \* runSoak: where the loop of runSoak stands
    soakN,      \* runSoak: the loop variable n
    usrc,       \* UnmarshalRecursive: the input bytes, and the values they encode
    uret        \* its result, once it is called

queryVars == <<qarg, qret>>

groupVars == <<garg, gret>>

filterVars == <<fargs, fret>>

lobbyVars ==
    <<roomCache, gameCache, rpcFate, reqQueries, ctxDone, pc, shuffled, next, attempts,
      rpcLog, result>>

serviceVars == <<apps, dbRooms, hubRows, hubCache, call>>

repoVars == <<creates, repoRooms, repoClients, mu, removes, clients, infoCall>>

roomVars == <<roomState, msgCh, joins, evlog>>

soakVars == <<counter, goroutines, mainPc, soakN>>

decodeVars == <<usrc, uret>>

vars ==
    <<qarg, qret, garg, gret, fargs, fret, roomCache, gameCache, rpcFate, reqQueries,
      ctxDone, pc, shuffled, next, attempts, rpcLog, result, apps, dbRooms, hubRows,
      hubCache, call, creates, repoRooms, repoClients, mu, removes, clients, infoCall,
      roomState, msgCh, joins,
      evlog, counter, goroutines, mainPc, soakN, usrc, uret>>

\* all sequences over S of length at most n
SeqsUpTo(S, n) == UNION {[1..k -> S] : k \in 0..n}

(* ----------------------- inputs of PropQuery.match -------------------- *)

ByteVals == {1, 2}

UShortVals == {1, 258, 512}

Scalars ==
    {MarshalNull, MarshalBool(TRUE), MarshalBool(FALSE)}
    \cup {MarshalByte(v) : v \in ByteVals} \cup {MarshalUShort(v) : v \in UShortVals}
    \cup {MarshalSByte(-127)}

ListElements == {MarshalByte(1), MarshalByte(2), MarshalUShort(258), MarshalBool(TRUE)}

ListVals ==
    {MarshalBytes(vs) : vs \in SeqsUpTo(ByteVals, MaxListLen)}
    \cup {MarshalUShorts(vs) : vs \in SeqsUpTo(UShortVals, MaxListLen)}
    \cup {MarshalBools(bs) : bs \in SeqsUpTo(BOOLEAN, MaxListLen)}
    \cup {MarshalList(es) : es \in SeqsUpTo(ListElements, MaxListLen)}

\* the value stored under the query's key; <<>> when the dict has no such key
StoredVals == {<<>>} \cup Scalars \cup ListVals

\* PropQuery.Val: an encoded scalar, or empty
QueryVals == {<<>>} \cup Scalars

Ops == OpEqual..OpUnsupported

QueryIdle ==
    /\ qarg = [val |-> <<>>, q |-> [Key |-> "a", Op |-> OpEqual, Val |-> <<>>]]
    /\ qret = "none"

GroupIdle ==
    /\ garg = [props |-> [k \in {"a", "b"} |-> <<>>], group |-> <<>>]
    /\ gret = "none"

FilterIdle ==
    /\ fargs = [rooms |-> <<>>, props |-> <<>>, queries |-> <<>>, limit |-> 0,
                checkJoinable |-> FALSE, checkWatchable |-> FALSE]
    /\ fret = [called |-> FALSE, panic |-> FALSE, filtered |-> <<>>]

NoResult == [kind |-> "none", room |-> 0, status |-> 0, msg |-> ""]

LobbyIdle ==
    /\ roomCache = [err |-> FALSE, rooms |-> <<>>, props |-> <<>>]
    /\ gameCache = {}
    /\ rpcFate = <<>>
    /\ reqQueries = <<>>
    /\ ctxDone = FALSE
    /\ pc = "idle"
    /\ shuffled = <<>>
    /\ next = 0
    /\ attempts = <<>>
    /\ rpcLog = <<>>
    /\ result = NoResult

NoCall == [op |-> "none"]

ServiceIdle ==
    /\ apps = {}
    /\ dbRooms = {}
    /\ hubRows = <<>>
    /\ hubCache = {}
    /\ call = NoCall

RepoIdle ==
    /\ creates = <<>>
    /\ repoRooms = {}
    /\ repoClients = {}
    /\ mu = <<>>
    /\ removes = <<>>
    /\ clients = <<>>
    /\ infoCall = [pc |-> "none"]

RoomIdle ==
    /\ roomState = [running |-> FALSE, players |-> <<>>]
    /\ msgCh = <<>>
    /\ joins = <<>>
    /\ evlog = <<>>

SoakIdle ==
    /\ counter = [roomCount |-> 0, cap |-> 0, len |-> 0]
    /\ goroutines = <<>>
    /\ mainPc = "idle"
    /\ soakN = 0

DecodeIdle ==
    /\ usrc = [vals |-> <<>>, src |-> <<>>]
    /\ uret = [called |-> FALSE, err |-> FALSE, v |-> [t |-> "nil"]]

InitPropQuery ==
    /\ qarg \in [val : StoredVals, q : [Key : {"a"}, Op : Ops, Val : QueryVals]]
    /\ qret = "none"
    /\ GroupIdle
    /\ FilterIdle
    /\ LobbyIdle
    /\ ServiceIdle
    /\ RepoIdle
    /\ RoomIdle
    /\ SoakIdle
    /\ DecodeIdle

\* one call q.match(val)
MatchQuery ==
    /\ qret = "none"
    /\ qret' = PropQuery_match(qarg.q, qarg.val)
    /\ UNCHANGED <<qarg, groupVars, filterVars, lobbyVars, serviceVars, repoVars, roomVars,
                 soakVars, decodeVars>>

NextPropQuery == MatchQuery

SpecPropQuery == InitPropQuery /\ [][NextPropQuery]_vars

(* ----------------------- inputs of PropQueries.match ------------------ *)

Keys == {"a", "b"}

GroupQueryPool ==
    [Key : Keys, Op : {OpEqual, OpGreaterThan, OpContain, OpUnsupported},
     Val : {MarshalByte(1), MarshalByte(2)}]

GroupPropVals == {<<>>, MarshalByte(1), MarshalByte(2), MarshalBytes(<<1>>)}

InitPropQueries ==
    /\ garg \in [props : [Keys -> GroupPropVals], group : SeqsUpTo(GroupQueryPool, MaxGroupLen)]
    /\ gret = "none"
    /\ QueryIdle
    /\ FilterIdle
    /\ LobbyIdle
    /\ ServiceIdle
    /\ RepoIdle
    /\ RoomIdle
    /\ SoakIdle
    /\ DecodeIdle

\* one call pqs.match(props)
MatchGroup ==
    /\ gret = "none"
    /\ gret' = PropQueries_match(garg.group, garg.props)
    /\ UNCHANGED <<garg, queryVars, filterVars, lobbyVars, serviceVars, repoVars, roomVars,
                 soakVars, decodeVars>>

NextPropQueries == MatchGroup

SpecPropQueries == InitPropQueries /\ [][NextPropQueries]_vars

(* ------------------------- claims: PropQueries ------------------------ *)

\* the result of the i-th query of the group on the value stored under its key
QueryResult(i) == PropQuery_match(garg.group[i], garg.props[garg.group[i].Key])

\* C7: a PropQueries group matches a props dict iff every PropQuery of the group
\* matches the value stored under its key; a group with no queries matches every
\* dict, and the first non-matching query makes the group not match.
C7_GroupIsConjunction ==
    gret # "none" =>
        /\ (gret = "true") <=> (\A i \in 1..Len(garg.group) : QueryResult(i) = "true")
        /\ garg.group = <<>> => gret = "true"
        /\ \A i \in 1..Len(garg.group) :
              (QueryResult(i) = "false" /\ \A j \in 1..(i - 1) : QueryResult(j) = "true")
                  => gret = "false"

\* a two-query group whose first query matches and whose second does not
C7_Witness ==
    /\ gret = "false"
    /\ Len(garg.group) = 2
    /\ QueryResult(1) = "true"
    /\ QueryResult(2) = "false"

(* -------------------------- claims: PropQuery ------------------------- *)

HasTag(v) == v # <<>>

IsComparison(op) == op \in OpEqual..OpGreaterThanOrEqual

IsListValue(v) == HasTag(v) /\ v[1] \in {TypeList, TypeBools} \cup NumListTypes

\* the elements of a stored list value, each as an encoded value with its tag byte
Elements(v) ==
    IF v[1] = TypeList THEN {UnmarshalAsList(v).v[i] : i \in 1..Len(UnmarshalAsList(v).v)}
    ELSE IF v[1] = TypeBools
         THEN {MarshalBool(UnmarshalAsBools(v).v[i]) : i \in 1..Len(UnmarshalAsBools(v).v)}
    ELSE LET et == NumListElementType(v[1])
             sz == NumTypeDataSize(et)
         IN  {<<et>> \o SubSeq(v, 4 + (k - 1) * sz, 3 + k * sz) : k \in 1..GetU16(v, 2)}

\* the query's tag is the tag of no element the stored list can hold
ElementTagMismatch(v, qv) ==
    IF v[1] = TypeList THEN \A e \in Elements(v) : e[1] # qv[1]
    ELSE IF v[1] = TypeBools THEN qv[1] \notin {TypeTrue, TypeFalse}
    ELSE NumListElementType(v[1]) # qv[1]

\* C8: for the comparison operators, when the type tag of the stored value differs
\* from the type tag of the query value the query is a non-match for Equal,
\* LessThan, LessThanOrEqual, GreaterThan and GreaterThanOrEqual and a match for Not.
C8_TagMismatchIsNonMatch ==
    (/\ qret # "none"
     /\ IsComparison(qarg.q.Op)
     /\ HasTag(qarg.val) /\ HasTag(qarg.q.Val)
     /\ qarg.val[1] # qarg.q.Val[1])
        => qret = B(qarg.q.Op = OpNot)

NumericTags == {TypeByte, TypeSByte, TypeUShort}

C10_ContainIsMembership ==
    (qret # "none" /\ qarg.q.Op \in {OpContain, OpNotContain}) =>
        /\ (IsListValue(qarg.val) /\ HasTag(qarg.q.Val))
              => qret = B((qarg.q.Op = OpContain) <=> (qarg.q.Val \in Elements(qarg.val)))
        /\ (HasTag(qarg.val) /\ qarg.val[1] = TypeNull)
              => qret = B(qarg.q.Op = OpNotContain)

\* Contain of a UShort found as the second element of a UShorts list
C10_Witness ==
    /\ qret = "true"
    /\ qarg.q.Op = OpContain
    /\ qarg.val = MarshalUShorts(<<1, 512>>)
    /\ qarg.q.Val = MarshalUShort(512)

\* C36: evaluating a PropQuery with any of the eight operators against a props dict
\* with no entry for the query's key (an empty stored value), or with an empty query
\* value, completes with a boolean result and never fails at run time.
C36_EmptyValuesEvaluate ==
    (/\ qret # "none"
     /\ qarg.q.Op \in OpEqual..OpNotContain
     /\ qarg.val = <<>> \/ qarg.q.Val = <<>>)
        => qret \in {"true", "false"}

(* --------------------------------- filter ----------------------------- *)

\* variant: the watchable mask is not applied
MaskSkips_JoinableOnly(room, checkJoinable, checkWatchable) ==
    checkJoinable /\ ~room.Joinable

\* the mask checks of filter: TRUE when the room is skipped
MaskSkips(room, checkJoinable, checkWatchable) ==
    \/ checkJoinable /\ ~room.Joinable
    \/ checkWatchable /\ ~room.Watchable

\* the query test of filter on one room's props: an empty list matches, otherwise
\* the groups are tried in order up to the first match
RECURSIVE AnyGroupMatches(_, _)
AnyGroupMatches(queries, props) ==
    IF queries = <<>> THEN "false"
    ELSE LET m == PropQueries_match(Head(queries), props)
         IN  IF m = "panic" THEN "panic"
             ELSE IF m = "true" THEN "true"
             ELSE AnyGroupMatches(Tail(queries), props)

QueriesMatch(queries, props) ==
    IF Len(queries) = 0 THEN "true" ELSE AnyGroupMatches(queries, props)

\* the loop of filter from room i on; filtered holds the indices of the rooms
\* appended so far (the code appends &rooms[i])
RECURSIVE filterLoop(_, _, _, _, _, _, _, _)
filterLoop(rooms, props, queries, limit, checkJoinable, checkWatchable, i, filtered) ==
    IF i > Len(rooms) THEN [panic |-> FALSE, filtered |-> filtered]
    ELSE IF MaskSkips(rooms[i], checkJoinable, checkWatchable)
         THEN filterLoop(rooms, props, queries, limit, checkJoinable, checkWatchable,
                         i + 1, filtered)
    ELSE LET m == QueriesMatch(queries, props[i])
             f == IF m = "true" THEN Append(filtered, i) ELSE filtered
         IN  IF m = "panic" THEN [panic |-> TRUE, filtered |-> <<>>]
             ELSE IF Len(f) >= limit THEN [panic |-> FALSE, filtered |-> f]
             ELSE filterLoop(rooms, props, queries, limit, checkJoinable, checkWatchable,
                             i + 1, f)

\* the limit filter works with
EffectiveLimit(limit, n) == IF limit = 0 \/ limit > n THEN n ELSE limit

\* filter; make([]*pb.RoomInfo, 0, limit) panics for a negative capacity
filter(rooms, props, queries, limit, checkJoinable, checkWatchable) ==
    LET lim == EffectiveLimit(limit, Len(rooms))
    IN  IF lim < 0 THEN [panic |-> TRUE, filtered |-> <<>>]
        ELSE filterLoop(rooms, props, queries, lim, checkJoinable, checkWatchable, 1, <<>>)

(* --------------------------- inputs of filter ------------------------- *)

FilterDicts ==
    { [k \in Keys |-> <<>>],
      [k \in Keys |-> IF k = "a" THEN MarshalByte(1) ELSE MarshalBytes(<<2>>)],
      [k \in Keys |-> IF k = "a" THEN MarshalByte(2) ELSE MarshalBytes(<<1, 2>>)] }

FilterGroups ==
    { <<>>,
      <<[Key |-> "a", Op |-> OpEqual, Val |-> MarshalByte(1)]>>,
      <<[Key |-> "b", Op |-> OpContain, Val |-> MarshalByte(2)]>>,
      <<[Key |-> "a", Op |-> OpGreaterThanOrEqual, Val |-> MarshalByte(2)],
        [Key |-> "b", Op |-> OpContain, Val |-> MarshalByte(1)]>> }

\* no query group, one, or two
FilterQueries ==
    {<<>>} \cup {<<g>> : g \in FilterGroups}
    \cup {<<g1, g2>> : g1 \in FilterGroups, g2 \in FilterGroups}

FilterRooms == [Joinable : BOOLEAN, Watchable : BOOLEAN]

InitFilter ==
    /\ \E n \in 0..MaxRooms :
         fargs \in [rooms : [1..n -> FilterRooms], props : [1..n -> FilterDicts],
                    queries : FilterQueries, limit : (-1)..MaxRooms,
                    checkJoinable : BOOLEAN, checkWatchable : BOOLEAN]
    /\ fret = [called |-> FALSE, panic |-> FALSE, filtered |-> <<>>]
    /\ QueryIdle
    /\ GroupIdle
    /\ LobbyIdle
    /\ ServiceIdle
    /\ RepoIdle
    /\ RoomIdle
    /\ SoakIdle
    /\ DecodeIdle

\* one call filter(rooms, props, queries, limit, checkJoinable, checkWatchable)
Filter ==
    /\ ~fret.called
    /\ fret' = [called |-> TRUE] @@
                filter(fargs.rooms, fargs.props, fargs.queries, fargs.limit,
                       fargs.checkJoinable, fargs.checkWatchable)
    /\ UNCHANGED <<fargs, queryVars, groupVars, lobbyVars, serviceVars, repoVars, roomVars,
                 soakVars, decodeVars>>

NextFilter == Filter

SpecFilter == InitFilter /\ [][NextFilter]_vars

(* ---------------------------- claims: filter -------------------------- *)

Min(a, b) == IF a <= b THEN a ELSE b

FirstN(seq, n) == SubSeq(seq, 1, Min(n, Len(seq)))

Indices(n) == [i \in 1..n |-> i]

SeqRange(seq) == {seq[i] : i \in 1..Len(seq)}

\* room i passes the requested masks
PassesMasks(i) ==
    /\ fargs.checkJoinable => fargs.rooms[i].Joinable
    /\ fargs.checkWatchable => fargs.rooms[i].Watchable

\* room i passes the masks, and the query list is empty or some group matches its props
Passes(i) ==
    /\ PassesMasks(i)
    /\ \/ fargs.queries = <<>>
       \/ \E k \in 1..Len(fargs.queries) :
             PropQueries_match(fargs.queries[k], fargs.props[i]) = "true"

\* the rooms that pass, in input order
Passing == SelectSeq(Indices(Len(fargs.rooms)), Passes)

\* the cap the limit argument stands for: 0 or more than the rooms means no cap
Cap == IF fargs.limit = 0 \/ fargs.limit > Len(fargs.rooms) THEN Len(fargs.rooms) ELSE fargs.limit

\* C5, as stated: filter returns exactly the rooms, in input order, that pass the
\* requested masks and for which the query list is empty or at least one group
\* matches; a room failing a requested mask is never returned.
C5_ReturnsAllPassing ==
    (fret.called /\ ~fret.panic) =>
        /\ fret.filtered = Passing
        /\ \A i \in SeqRange(fret.filtered) : PassesMasks(i)

\* C5, amended: the list filter returns is, in input order, the first `limit` of the
\* rooms that pass the requested masks and for which the query list is empty or at
\* least one group matches (all of them when limit is 0 or exceeds the number of
\* rooms); a room failing a requested mask is never returned.
C5_ReturnsFirstPassing ==
    (fret.called /\ ~fret.panic) =>
        /\ fret.filtered = FirstN(Passing, Cap)
        /\ \A i \in SeqRange(fret.filtered) : PassesMasks(i)

\* a call with both masks and a query list that returns the second room only: the
\* first fails a mask though its props match
C5_Witness ==
    /\ fret.called /\ ~fret.panic
    /\ fargs.checkWatchable /\ fargs.checkJoinable
    /\ Len(fargs.rooms) = 2
    /\ fargs.queries # <<>>
    /\ fret.filtered = <<2>>
    /\ ~fargs.rooms[1].Watchable /\ fargs.rooms[1].Joinable
    /\ PropQueries_match(fargs.queries[1], fargs.props[1]) = "true"

\* no query of the call fails at run time on the props of a room
QueriesEvaluate ==
    \A i \in 1..Len(fargs.rooms), k \in 1..Len(fargs.queries) :
        PropQueries_match(fargs.queries[k], fargs.props[i]) # "panic"

\* C39: filter returns normally for every integer limit: for limit <= 0 or limit
\* greater than the number of rooms it returns all rooms passing the masks and
\* queries, otherwise the first `limit` of them; the result never has more than
\* `limit` rooms when limit > 0.
C39_EveryLimitReturns ==
    (fret.called /\ QueriesEvaluate) =>
        /\ ~fret.panic
        /\ fret.filtered =
              FirstN(Passing, IF fargs.limit <= 0 \/ fargs.limit > Len(fargs.rooms)
                              THEN Len(fargs.rooms) ELSE fargs.limit)
        /\ fargs.limit > 0 => Len(fret.filtered) <= fargs.limit

\* filter for the single group k of the call's query list
FilterFor(k) ==
    filter(fargs.rooms, fargs.props, <<fargs.queries[k]>>, fargs.limit,
           fargs.checkJoinable, fargs.checkWatchable)

\* the rooms of either list, in input order
Union(f1, f2) ==
    LET In(i) == i \in SeqRange(f1) \cup SeqRange(f2)
    IN  SelectSeq(Indices(Len(fargs.rooms)), In)

\* C6: for all room lists and query groups g1, g2, the rooms filter returns for
\* [g1, g2] are exactly the rooms it returns for [g1] or for [g2], in input order,
\* truncated to the first `limit` rooms (for a limit that is not negative).
C6_FilterDisjunction ==
    (fret.called /\ Len(fargs.queries) = 2 /\ fargs.limit >= 0) =>
        /\ ~fret.panic <=> (~FilterFor(1).panic /\ ~FilterFor(2).panic)
        /\ ~fret.panic =>
              fret.filtered = FirstN(Union(FilterFor(1).filtered, FilterFor(2).filtered), Cap)

\* the disjunction on the calls that all return
FilterDisjunctionWhenReturning ==
    (/\ fret.called /\ Len(fargs.queries) = 2
     /\ ~fret.panic /\ ~FilterFor(1).panic /\ ~FilterFor(2).panic)
        => fret.filtered = FirstN(Union(FilterFor(1).filtered, FilterFor(2).filtered), Cap)

(* ------------------------------ lobby service ------------------------- *)

StatusOK == 200

StatusBadRequest == 400

StatusConflict == 409

\* the limit JoinAtRandom hands to filter
JoinAtRandomLimit == 1000

\* an error without a status tag has status 0 (the handler answers 500)
Untagged(msg) == [kind |-> "err", room |-> 0, status |-> 0, msg |-> msg]

withStatus(status, msg) == [kind |-> "err", room |-> 0, status |-> status, msg |-> msg]

Joined(roomId) == [kind |-> "ok", room |-> roomId, status |-> 0, msg |-> ""]

\* the remote codes Game.Join answers with
JoinCodes ==
    {"NotFound", "FailedPrecondition", "ResourceExhausted", "AlreadyExists",
     "InvalidArgument", "Unavailable"}

\* how the dial and the RPC for one room end: "OK", a remote code, or no connection
Fates == {"OK", "ConnError"} \cup JoinCodes

\* variant: the switch of join lacks the ResourceExhausted case
joinError_NoRoomFull(code) ==
    CASE code = "NotFound" -> withStatus(StatusOK, "No joinable room found")
      [] code = "FailedPrecondition" -> withStatus(StatusOK, "No joinable room found")
      [] code = "AlreadyExists" -> withStatus(StatusConflict, "Already exists")
      [] code = "InvalidArgument" -> withStatus(StatusBadRequest, "Invalid argument")
      [] OTHER -> Untagged("join: gRPC Join")

\* the switch of join on st.Code()
joinError(code) ==
    CASE code = "NotFound" -> withStatus(StatusOK, "No joinable room found")
      [] code = "FailedPrecondition" -> withStatus(StatusOK, "No joinable room found")
      [] code = "ResourceExhausted" -> withStatus(StatusOK, "Room full")
      [] code = "AlreadyExists" -> withStatus(StatusConflict, "Already exists")
      [] code = "InvalidArgument" -> withStatus(StatusBadRequest, "Invalid argument")
      [] OTHER -> Untagged("join: gRPC Join")

\* RoomService.join: its result, and whether the Game.Join RPC was dispatched
join(roomId, hostId) ==
    IF hostId \notin gameCache
    THEN [res |-> Untagged("join: failed to get game server"), rpc |-> FALSE]
    ELSE IF rpcFate[roomId] = "ConnError"
    THEN [res |-> Untagged("join: gRPC client connection error"), rpc |-> FALSE]
    ELSE IF rpcFate[roomId] = "OK"
    THEN [res |-> Joined(roomId), rpc |-> TRUE]
    ELSE [res |-> joinError(rpcFate[roomId]), rpc |-> TRUE]

\* variant: the context is never consulted
CtxIsDone_Never(done) == FALSE

\* select { case <-ctx.Done(): ...; default: } at the head of each iteration
CtxIsDone(done) == done

\* variant: a 400 is absorbed like the other failures
Aborts_Never(res) == FALSE

\* variant: every error carrying a status cuts the call short
Aborts_AnyStatus(res) == res.status # 0

\* the switch on ews.Status() after a failed join: TRUE when the call is cut short
Aborts(res) == res.status = StatusBadRequest

\* variant: exhaustion is answered with status 404
AllFailed_NotFound == withStatus(404, "No joinable room found")

\* the return after the loop
AllFailed == withStatus(StatusOK, "No joinable room found")

\* variant: the order may name a room more than once
Shuffles_Repeating(seq) == [1..Len(seq) -> SeqRange(seq)]

\* all orders of a sequence (rand.Shuffle)
Shuffles(seq) ==
    {[i \in 1..Len(seq) |-> seq[p[i]]] :
        p \in {q \in [1..Len(seq) -> 1..Len(seq)] : \A i, j \in 1..Len(seq) : i # j => q[i] # q[j]}}

\* JoinAtRandom up to the loop: the cache lookup, filter and the shuffle
JoinAtRandomStart ==
    /\ pc = "start"
    /\ IF roomCache.err
       THEN /\ result' = Untagged("JoinAtRandom: RoomCache error")
            /\ pc' = "done"
            /\ UNCHANGED <<shuffled, next>>
       ELSE LET f == filter(roomCache.rooms, roomCache.props, reqQueries,
                            JoinAtRandomLimit, TRUE, FALSE)
            IN  IF f.panic
                THEN /\ result' = [kind |-> "panic", room |-> 0, status |-> 0, msg |-> ""]
                     /\ pc' = "done"
                     /\ UNCHANGED <<shuffled, next>>
                ELSE /\ shuffled' \in Shuffles(f.filtered)
                     /\ next' = 1
                     /\ pc' = "loop"
                     /\ UNCHANGED result
    /\ UNCHANGED <<roomCache, gameCache, rpcFate, reqQueries, ctxDone, attempts, rpcLog>>
    /\ UNCHANGED <<queryVars, groupVars, filterVars, serviceVars, repoVars, roomVars,
                 soakVars, decodeVars>>

\* one iteration of the loop over the candidates
JoinAtRandomStep ==
    /\ pc = "loop"
    /\ next <= Len(shuffled)
    /\ IF CtxIsDone(ctxDone)
       THEN /\ result' = Untagged("JoinAtRandom: timeout")
            /\ pc' = "done"
            /\ UNCHANGED <<next, attempts, rpcLog>>
       ELSE LET room == roomCache.rooms[shuffled[next]]
                j    == join(room.Id, room.HostId)
            IN  /\ attempts' = Append(attempts, [room |-> room.Id, res |-> j.res])
                /\ rpcLog' = IF j.rpc
                             THEN Append(rpcLog, [host |-> room.HostId, room |-> room.Id])
                             ELSE rpcLog
                /\ IF j.res.kind = "ok" \/ Aborts(j.res)
                   THEN result' = j.res /\ pc' = "done" /\ UNCHANGED next
                   ELSE next' = next + 1 /\ UNCHANGED <<result, pc>>
    /\ UNCHANGED <<roomCache, gameCache, rpcFate, reqQueries, ctxDone, shuffled>>
    /\ UNCHANGED <<queryVars, groupVars, filterVars, serviceVars, repoVars, roomVars,
                 soakVars, decodeVars>>

\* the loop has run out of candidates
JoinAtRandomEnd ==
    /\ pc = "loop"
    /\ next > Len(shuffled)
    /\ result' = AllFailed
    /\ pc' = "done"
    /\ UNCHANGED <<roomCache, gameCache, rpcFate, reqQueries, ctxDone, shuffled, next,
                   attempts, rpcLog>>
    /\ UNCHANGED <<queryVars, groupVars, filterVars, serviceVars, repoVars, roomVars,
                 soakVars, decodeVars>>

\* the caller's deadline fires, or the caller cancels
CtxDone ==
    /\ pc \in {"start", "loop"}
    /\ ~ctxDone
    /\ ctxDone' = TRUE
    /\ UNCHANGED <<roomCache, gameCache, rpcFate, reqQueries, pc, shuffled, next,
                   attempts, rpcLog, result>>
    /\ UNCHANGED <<queryVars, groupVars, filterVars, serviceVars, repoVars, roomVars,
                 soakVars, decodeVars>>

(* -------------------------- inputs of the lobby ----------------------- *)

LobbyDicts == {[k \in Keys |-> <<>>], [k \in Keys |-> MarshalByte(1)]}

LobbyQueries == {<<>>, <<<<[Key |-> "a", Op |-> OpEqual, Val |-> MarshalByte(1)]>>>>}

\* the host gameCache holds, and one it does not hold (its heartbeat is too old)
LiveHost == 1

GoneHost == 2

\* per room: the host is gone from gameCache, or how the dial and the RPC end
Remotes == Fates \cup {"HostGone"}

Init ==
    /\ \E n \in 0..MaxCached :
         \/ /\ n = 0
            /\ roomCache = [err |-> TRUE, rooms |-> <<>>, props |-> <<>>]
            /\ rpcFate = <<>>
         \/ \E rem \in [1..n -> Remotes], js \in [1..n -> BOOLEAN], ps \in [1..n -> LobbyDicts] :
              /\ roomCache =
                    [err |-> FALSE,
                     rooms |-> [i \in 1..n |->
                                  [Id |-> i,
                                   HostId |-> IF rem[i] = "HostGone" THEN GoneHost ELSE LiveHost,
                                   Joinable |-> js[i], Watchable |-> TRUE]],
                     props |-> ps]
              \* a room whose host is gone is never dialled
              /\ rpcFate = [i \in 1..n |-> IF rem[i] = "HostGone" THEN "OK" ELSE rem[i]]
    /\ gameCache = {LiveHost}
    /\ reqQueries \in LobbyQueries
    /\ ctxDone = FALSE
    /\ pc = "start"
    /\ shuffled = <<>>
    /\ next = 0
    /\ attempts = <<>>
    /\ rpcLog = <<>>
    /\ result = NoResult
    /\ QueryIdle
    /\ GroupIdle
    /\ FilterIdle
    /\ ServiceIdle
    /\ RepoIdle
    /\ RoomIdle
    /\ SoakIdle
    /\ DecodeIdle

Next ==
    \/ JoinAtRandomStart
    \/ JoinAtRandomStep
    \/ JoinAtRandomEnd
    \/ CtxDone

Spec == Init /\ [][Next]_vars

(* -------------------------- claims: JoinAtRandom ---------------------- *)

\* the candidates the call works on: the shuffled result of filter
Candidates == SeqRange(shuffled)

\* the join of candidate i would succeed
JoinSucceeds(i) ==
    join(roomCache.rooms[i].Id, roomCache.rooms[i].HostId).res.kind = "ok"

Timeout == Untagged("JoinAtRandom: timeout")

\* some attempt got a 400-classified error
SomeBadRequest == \E k \in 1..Len(attempts) : attempts[k].res.status = StatusBadRequest

\* C1: as soon as one join attempt returns a 400-classified error the whole call
\* returns that error and no further candidate is attempted.
C1_BadRequestAborts ==
    \A k \in 1..Len(attempts) :
        attempts[k].res.status = StatusBadRequest
            => /\ k = Len(attempts)
               /\ pc = "done"
               /\ result = attempts[k].res

\* the call has returned the 400 of its first attempt, a candidate still untried
C1_Witness ==
    /\ pc = "done"
    /\ result.status = StatusBadRequest
    /\ Len(attempts) = 1
    /\ attempts[1].res = result
    /\ Len(shuffled) > Len(attempts)

\* C2: the call returns a joined room whenever the candidates hold a room whose join
\* succeeds, no attempted join returned a 400-classified error and the deadline did
\* not fire; the failures of the other candidates are absorbed.
C2_JoinsWhenSomeRoomAccepts ==
    (/\ pc = "done"
     /\ \E i \in Candidates : JoinSucceeds(i)
     /\ ~SomeBadRequest
     /\ result # Timeout)
        => /\ result.kind = "ok"
           /\ result.room \in Candidates
           /\ JoinSucceeds(result.room)

\* a joined room after an absorbed conflict (409) of the candidate tried first
C2_Witness ==
    /\ pc = "done"
    /\ result.kind = "ok"
    /\ Len(attempts) = 2
    /\ attempts[1].res.status = StatusConflict
    /\ attempts[2].res = result

\* every candidate was attempted, none with success or a 400
Exhausted ==
    /\ pc = "done"
    /\ ~roomCache.err
    /\ result.kind # "panic"
    /\ Len(attempts) = Len(shuffled)
    /\ \A k \in 1..Len(attempts) :
          attempts[k].res.kind = "err" /\ attempts[k].res.status # StatusBadRequest

\* C3: when every candidate was attempted without success (or there is none) and
\* no 400 error or deadline occurred, the call returns the error tagged with status
\* 200 and message "No joinable room found".
C3_NoJoinableRoomFound ==
    Exhausted => result = withStatus(StatusOK, "No joinable room found")

\* two candidates attempted, both refused
C3_Witness ==
    /\ Exhausted
    /\ Len(attempts) = 2
    /\ attempts[1].res.msg = "Room full"

\* C4: the deadline is checked before every attempt: when the context is done at
\* the head of an iteration the call returns the "timeout" error and makes no
\* further join attempt.
C4_TimeoutBeforeAttempt ==
    [][(pc = "loop" /\ next <= Len(shuffled) /\ ctxDone)
          => /\ pc' = "done"
             /\ result' = Timeout
             /\ attempts' = attempts
             /\ rpcLog' = rpcLog]_vars

\* the call timed out after one attempt, candidates left
C4_Witness ==
    /\ pc = "done"
    /\ result = Timeout
    /\ Len(attempts) = 1
    /\ Len(shuffled) > 1

\* the rooms of the cached snapshot that are joinable and match the queries
JoinableMatching ==
    {i \in 1..Len(roomCache.rooms) :
        /\ roomCache.rooms[i].Joinable
        /\ reqQueries = <<>> \/ \E g \in 1..Len(reqQueries) :
                                   PropQueries_match(reqQueries[g], roomCache.props[i]) = "true"}

StatusInternalServerError == 500

StatusServiceUnavailable == 503

maxWatchers == 10000

\* the guard of every call but Search and JoinAtRandom: rs.apps[appId] not found
UnknownApp == Untagged("Unknown appId")

Panicked == [kind |-> "panic", room |-> 0, status |-> 0, msg |-> ""]

\* variant: Create classifies the remote codes the way join does
createError_AsJoin(code) ==
    CASE code = "NotFound" -> withStatus(StatusOK, "No joinable room found")
      [] code = "FailedPrecondition" -> withStatus(StatusOK, "No joinable room found")
      [] code = "ResourceExhausted" -> withStatus(StatusOK, "Room full")
      [] code = "AlreadyExists" -> withStatus(StatusConflict, "Already exists")
      [] code = "InvalidArgument" -> withStatus(StatusBadRequest, "Invalid argument")
      [] OTHER -> Untagged("Create: gRPC Create")

\* the switch of Create on st.Code()
createError(code) ==
    CASE code = "InvalidArgument" -> withStatus(StatusBadRequest, "Invalid argument")
      [] code = "ResourceExhausted" ->
            withStatus(StatusServiceUnavailable, "Reached to the max room number")
      [] OTHER -> Untagged("Create: gRPC Create")

\* the answer of Create when gameCache.Rand fails
NoGameServer == withStatus(StatusInternalServerError, "No game server found")

\* Create with the host gameCache.Rand picked (any, when the cache is empty) and the
\* way the dial and the RPC end; rpc is the sequence of RPCs dispatched
Create(appId, game, fate) ==
    IF appId \notin apps THEN [res |-> UnknownApp, rpc |-> <<>>]
    ELSE IF gameCache = {} THEN [res |-> NoGameServer, rpc |-> <<>>]
    ELSE IF fate = "ConnError"
    THEN [res |-> Untagged("Create: gRPC client connection error"), rpc |-> <<>>]
    ELSE IF fate = "OK"
    THEN [res |-> Joined(0), rpc |-> <<[host |-> game, room |-> 0]>>]
    ELSE [res |-> createError(fate), rpc |-> <<[host |-> game, room |-> 0]>>]

\* unmarshalProps on the row's public_props
unmarshalProps(row) == [err |-> ~row.PropsOk, dict |-> row.Props]

\* the row db.Get finds, when there is none
NoRow == [Id |-> 0]

\* SELECT * FROM room WHERE app_id = ? AND <column> = ? AND <flag> = 1
SelectRoom(appId, column, key, flag) ==
    {r \in dbRooms : r.AppId = appId /\ r[column] = key /\ r[flag]}

\* the masks JoinById and JoinByNumber pass to filter
JoinMasks == [checkJoinable |-> TRUE, checkWatchable |-> FALSE]

\* the masks WatchById and WatchByNumber pass to filter
WatchMasks == [checkJoinable |-> FALSE, checkWatchable |-> TRUE]

\* the call of join on filtered[0], with the RPC it dispatches
joinDispatch(row, j) ==
    [res |-> j.res,
     rpc |-> IF j.rpc THEN <<[host |-> row.HostId, room |-> row.Id]>> ELSE <<>>]

\* variant: the row is joined whatever filter answered
joinFiltered_Always(row, f) ==
    IF f.panic THEN [res |-> Panicked, rpc |-> <<>>]
    ELSE joinDispatch(row, join(row.Id, row.HostId))

\* JoinById / JoinByNumber after filter: f is what filter answered on the row
joinFiltered(row, f) ==
    IF f.panic THEN [res |-> Panicked, rpc |-> <<>>]
    ELSE IF Len(f.filtered) = 0
    THEN [res |-> withStatus(StatusOK, "No joinable room found"), rpc |-> <<>>]
    ELSE joinDispatch(row, join(row.Id, row.HostId))

\* JoinById / JoinByNumber from the row db.Get answered (NoRow: sql.ErrNoRows)
joinRow(appId, row, queries) ==
    IF appId \notin apps THEN [res |-> UnknownApp, rpc |-> <<>>]
    ELSE IF row = NoRow
    THEN [res |-> withStatus(StatusOK, "No joinable room found"), rpc |-> <<>>]
    ELSE IF unmarshalProps(row).err
    THEN [res |-> Untagged("unmarshalProps"), rpc |-> <<>>]
    ELSE joinFiltered(row, filter(<<row>>, <<unmarshalProps(row).dict>>, queries, 1,
                                  JoinMasks.checkJoinable, JoinMasks.checkWatchable))

\* variant: every hub of the room is a candidate, full or not
watchHostIDs_All(rows) == [i \in 1..Len(rows) |-> rows[i].host_id]

\* hostIDs of watch: the hubs of the room with watchers < maxWatchers, in row order
RECURSIVE watchHostIDs(_)
watchHostIDs(rows) ==
    IF rows = <<>> THEN <<>>
    ELSE IF Head(rows).watchers < maxWatchers
         THEN <<Head(rows).host_id>> \o watchHostIDs(Tail(rows))
         ELSE watchHostIDs(Tail(rows))

\* the hub ids watch may come to look up or pick: hostIDs[rand.Intn(len(hostIDs))]
\* when hostIDs is not empty, else what hubCache.Rand answers (0: no live hub)
HubPicks ==
    LET hostIDs == watchHostIDs(hubRows)
    IN  IF Len(hostIDs) > 0 THEN {hostIDs[n] : n \in 1..Len(hostIDs)}
        ELSE IF hubCache = {} THEN {0}
        ELSE hubCache

\* the switch of watch on st.Code()
watchError(code) ==
    CASE code = "NotFound" -> withStatus(StatusOK, "No watchable room found")
      [] code = "FailedPrecondition" -> withStatus(StatusOK, "No watchable room found")
      [] code = "AlreadyExists" -> withStatus(StatusConflict, "Already exists")
      [] code = "InvalidArgument" -> withStatus(StatusBadRequest, "Invalid argument")
      [] OTHER -> Untagged("watch: gRPC Watch")

\* watch with the hub id picked; its hostId argument is not used
watch(roomId, hub) ==
    IF hub \notin hubCache
    THEN [res |-> Untagged("watch: failed to get hub server"), rpc |-> <<>>]
    ELSE IF rpcFate[roomId] = "ConnError"
    THEN [res |-> Untagged("watch: gRPC client connection error"), rpc |-> <<>>]
    ELSE IF rpcFate[roomId] = "OK"
    THEN [res |-> Joined(roomId), rpc |-> <<[host |-> hub, room |-> roomId]>>]
    ELSE [res |-> watchError(rpcFate[roomId]), rpc |-> <<[host |-> hub, room |-> roomId]>>]

\* WatchById / WatchByNumber after filter: f is what filter answered on the row
watchFiltered(row, f, hub) ==
    IF f.panic THEN [res |-> Panicked, rpc |-> <<>>]
    ELSE IF Len(f.filtered) = 0
    THEN [res |-> withStatus(StatusOK, "No joinable room found"), rpc |-> <<>>]
    ELSE watch(row.Id, hub)

\* WatchById / WatchByNumber from the row db.Get answered and the hub id picked
watchRow(appId, row, queries, hub) ==
    IF appId \notin apps THEN [res |-> UnknownApp, rpc |-> <<>>]
    ELSE IF row = NoRow
    THEN [res |-> withStatus(StatusOK, "No watchable room found"), rpc |-> <<>>]
    ELSE IF unmarshalProps(row).err
    THEN [res |-> Untagged("unmarshalProps"), rpc |-> <<>>]
    ELSE watchFiltered(row,
                       filter(<<row>>, <<unmarshalProps(row).dict>>, queries, 1,
                              WatchMasks.checkJoinable, WatchMasks.checkWatchable),
                       hub)

\* variant: Search asks the game host of every room it returns
SearchRpcs_Probe(filtered) ==
    [i \in 1..Len(filtered) |->
        [host |-> roomCache.rooms[filtered[i]].HostId, room |-> roomCache.rooms[filtered[i]].Id]]

\* the RPCs Search dispatches for the rooms it returns: none
SearchRpcs(filtered) == <<>>

\* what Search returns from the answer of filter; rooms holds the indices into
\* roomCache.rooms of the rooms returned
searchFiltered(f) ==
    IF f.panic THEN [res |-> Panicked, rpc |-> <<>>]
    ELSE [res |-> [kind |-> "rooms", room |-> 0, status |-> 0, msg |-> "",
                   rooms |-> f.filtered],
          rpc |-> SearchRpcs(f.filtered)]

\* Search
Search(queries, limit, joinable, watchable) ==
    IF roomCache.err THEN [res |-> Untagged("RoomCache error"), rpc |-> <<>>]
    ELSE searchFiltered(filter(roomCache.rooms, roomCache.props, queries, limit,
                               joinable, watchable))

(* ---------------------- inputs of the other calls --------------------- *)

\* Most rows the hub table holds for one room.
MaxHubRows == 2

RegisteredApps == {"app1", "app2"}

AppIds == RegisteredApps \cup {"appX"}

ServiceFrame ==
    UNCHANGED <<roomCache, gameCache, rpcFate, reqQueries, ctxDone, shuffled, next,
                attempts, serviceVars, repoVars, queryVars, groupVars, filterVars,
                roomVars, soakVars, decodeVars>>

\* the room of app2, on the live host
OtherRoom ==
    [Id |-> 2, Number |-> 6, AppId |-> "app2", HostId |-> LiveHost, Joinable |-> TRUE,
     Watchable |-> TRUE, Props |-> [k \in Keys |-> <<>>], PropsOk |-> TRUE]

\* the number of app1's room: 0 when it was created without a number
RoomNumbers == {0, 5}

\* the room ids and the room numbers the calls ask for
CallKeys(op) == IF op \in {"JoinById", "WatchById"} THEN {1, 2} ELSE {0, 5, 6}

\* the rows of app1's room the join calls are tried on
JoinRows ==
    [Id : {1}, Number : RoomNumbers, AppId : {"app1"}, HostId : {LiveHost, GoneHost},
     Joinable : BOOLEAN, Watchable : {TRUE}, Props : LobbyDicts, PropsOk : BOOLEAN]

\* the rows of app1's room the watch calls are tried on
WatchRows ==
    [Id : {1}, Number : RoomNumbers, AppId : {"app1"}, HostId : {LiveHost},
     Joinable : {TRUE}, Watchable : BOOLEAN, Props : LobbyDicts, PropsOk : {TRUE}]

\* the room tables over a set of rows for app1's room
Tables(rows) == {{}} \cup {{r} : r \in rows} \cup {{r, OtherRoom} : r \in rows}

HubIds == {1, 2}

\* the hub rows of one room: one row per hub at most
HubTables ==
    {t \in SeqsUpTo([host_id : HubIds, watchers : {maxWatchers - 1, maxWatchers}], MaxHubRows) :
        \A i, j \in 1..Len(t) : i # j => t[i].host_id # t[j].host_id}

\* a call with the arguments it does not take at their zero values
CallOf(op, app, key, fate, limit, joinable, watchable) ==
    [op |-> op, app |-> app, key |-> key, fate |-> fate, limit |-> limit,
     joinable |-> joinable, watchable |-> watchable]

NoCache == [err |-> FALSE, rooms |-> <<>>, props |-> <<>>]

InitCreate ==
    /\ \E app \in AppIds, fate \in Fates :
         call = CallOf("Create", app, 0, fate, 0, FALSE, FALSE)
    /\ gameCache \in {{}, {LiveHost}}
    /\ dbRooms = {}
    /\ rpcFate = <<>>
    /\ reqQueries = <<>>
    /\ hubRows = <<>>
    /\ hubCache = {}
    /\ roomCache = NoCache

InitJoin ==
    /\ \E op \in {"JoinById", "JoinByNumber"}, app \in AppIds :
         \E k \in CallKeys(op) : call = CallOf(op, app, k, "OK", 0, FALSE, FALSE)
    /\ gameCache = {LiveHost}
    /\ dbRooms \in Tables(JoinRows)
    /\ \E fate \in Fates : rpcFate = [i \in 1..2 |-> fate]
    /\ reqQueries \in LobbyQueries
    /\ hubRows = <<>>
    /\ hubCache = {}
    /\ roomCache = NoCache

InitWatch ==
    /\ \E op \in {"WatchById", "WatchByNumber"}, app \in AppIds :
         \E k \in CallKeys(op) : call = CallOf(op, app, k, "OK", 0, FALSE, FALSE)
    /\ gameCache = {LiveHost}
    /\ dbRooms \in Tables(WatchRows)
    /\ \E fate \in Fates : rpcFate = [i \in 1..2 |-> fate]
    /\ reqQueries \in LobbyQueries
    /\ hubRows \in HubTables
    /\ hubCache \in SUBSET HubIds
    /\ roomCache = NoCache

InitSearch ==
    /\ \E limit \in (-1)..MaxCached, joinable \in BOOLEAN, watchable \in BOOLEAN :
         call = CallOf("Search", "app1", 0, "OK", limit, joinable, watchable)
    /\ gameCache = {LiveHost}
    /\ dbRooms = {}
    /\ rpcFate = <<>>
    /\ reqQueries \in LobbyQueries
    /\ hubRows = <<>>
    /\ hubCache = {}
    /\ \E n \in 0..MaxCached :
         \/ n = 0 /\ roomCache = [err |-> TRUE, rooms |-> <<>>, props |-> <<>>]
         \/ \E js \in [1..n -> BOOLEAN], ws \in [1..n -> BOOLEAN], ps \in [1..n -> LobbyDicts] :
              roomCache =
                 [err |-> FALSE,
                  rooms |-> [i \in 1..n |-> [Id |-> i, HostId |-> LiveHost,
                                             Joinable |-> js[i], Watchable |-> ws[i]]],
                  props |-> ps]

InitService ==
    /\ apps = RegisteredApps
    /\ InitCreate \/ InitJoin \/ InitWatch \/ InitSearch
    /\ ctxDone = FALSE
    /\ pc = "ready"
    /\ shuffled = <<>>
    /\ next = 0
    /\ attempts = <<>>
    /\ rpcLog = <<>>
    /\ result = NoResult
    /\ RepoIdle
    /\ RoomIdle
    /\ SoakIdle
    /\ DecodeIdle
    /\ QueryIdle
    /\ GroupIdle
    /\ FilterIdle

\* the call returns: its result, and the RPCs it dispatched on the way
Respond(out) ==
    /\ result' = out.res
    /\ rpcLog' = rpcLog \o out.rpc
    /\ pc' = "done"
    /\ ServiceFrame

\* the rows db.Get may answer with: a matching row, or NoRow when there is none
Answer(found) == IF found = {} THEN {NoRow} ELSE found

CallCreate ==
    /\ pc = "ready"
    /\ call.op = "Create"
    /\ \E game \in (IF gameCache = {} THEN {0} ELSE gameCache) :
         Respond(Create(call.app, game, call.fate))

CallJoinById ==
    /\ pc = "ready"
    /\ call.op = "JoinById"
    /\ \E row \in Answer(SelectRoom(call.app, "Id", call.key, "Joinable")) :
         Respond(joinRow(call.app, row, reqQueries))

CallJoinByNumber ==
    /\ pc = "ready"
    /\ call.op = "JoinByNumber"
    /\ \E row \in Answer(SelectRoom(call.app, "Number", call.key, "Joinable")) :
         Respond(joinRow(call.app, row, reqQueries))

CallWatchById ==
    /\ pc = "ready"
    /\ call.op = "WatchById"
    /\ \E row \in Answer(SelectRoom(call.app, "Id", call.key, "Watchable")), hub \in HubPicks :
         Respond(watchRow(call.app, row, reqQueries, hub))

CallWatchByNumber ==
    /\ pc = "ready"
    /\ call.op = "WatchByNumber"
    /\ \E row \in Answer(SelectRoom(call.app, "Number", call.key, "Watchable")), hub \in HubPicks :
         Respond(watchRow(call.app, row, reqQueries, hub))

CallSearch ==
    /\ pc = "ready"
    /\ call.op = "Search"
    /\ Respond(Search(reqQueries, call.limit, call.joinable, call.watchable))

NextService ==
    \/ CallCreate
    \/ CallJoinById
    \/ CallJoinByNumber
    \/ CallWatchById
    \/ CallWatchByNumber
    \/ CallSearch

SpecService == InitService /\ [][NextService]_vars

(* ------------------ claims: join, Create, watch, Search --------------- *)

IsJoinCall == call.op \in {"JoinById", "JoinByNumber"}

IsWatchCall == call.op \in {"WatchById", "WatchByNumber"}

\* the call has returned after dispatching its RPC
Dispatched == pc = "done" /\ Len(rpcLog) = 1

\* the remote code the dispatched Join or Watch RPC came back with
RemoteCode == rpcFate[rpcLog[1].room]

NoStatusTag(res) == res.kind = "err" /\ res.status = 0

\* C11: join classifies a failed Game.Join by its remote code: NotFound and
\* FailedPrecondition give status 200 "No joinable room found", ResourceExhausted
\* gives status 200 "Room full", AlreadyExists gives 409, InvalidArgument gives 400,
\* and every other failure carries no status tag.
C11_JoinClassification ==
    (IsJoinCall /\ Dispatched /\ RemoteCode # "OK") =>
        /\ RemoteCode \in {"NotFound", "FailedPrecondition"}
              => result = withStatus(200, "No joinable room found")
        /\ RemoteCode = "ResourceExhausted" => result = withStatus(200, "Room full")
        /\ RemoteCode = "AlreadyExists" => result.kind = "err" /\ result.status = 409
        /\ RemoteCode = "InvalidArgument" => result.kind = "err" /\ result.status = 400
        /\ RemoteCode \notin {"NotFound", "FailedPrecondition", "ResourceExhausted",
                              "AlreadyExists", "InvalidArgument"}
              => NoStatusTag(result)

\* a JoinByNumber whose Game.Join came back with ResourceExhausted
C11_Witness ==
    /\ call.op = "JoinByNumber"
    /\ Dispatched
    /\ RemoteCode = "ResourceExhausted"
    /\ result.msg = "Room full"

\* C12: Create classifies a failed Game.Create by its remote code: InvalidArgument
\* gives 400, ResourceExhausted gives 503 and any other failure carries no other
\* status tag; an unregistered app is rejected with no game host contacted.
C12_CreateClassification ==
    (call.op = "Create" /\ pc = "done") =>
        /\ call.app \notin apps => NoStatusTag(result) /\ rpcLog = <<>>
        /\ (Len(rpcLog) = 1 /\ call.fate # "OK") =>
              /\ result.kind = "err"
              /\ result.status = CASE call.fate = "InvalidArgument" -> 400
                                   [] call.fate = "ResourceExhausted" -> 503
                                   [] OTHER -> 0

\* a Create whose Game.Create came back with ResourceExhausted
C12_Witness ==
    /\ call.op = "Create"
    /\ Dispatched
    /\ call.fate = "ResourceExhausted"
    /\ result.status = 503

\* C13: when no live game host is available (gameCache.Rand fails) Create fails
\* with the 503 ServiceUnavailable classification.
C13_NoHostIsServiceUnavailable ==
    (call.op = "Create" /\ pc = "done" /\ call.app \in apps /\ gameCache = {})
        => result.kind = "err" /\ result.status = 503

\* the rows of the table the call's SELECT matches, but for the joinable flag
KeyedRows ==
    {r \in dbRooms :
        /\ r.AppId = call.app
        /\ IF call.op \in {"JoinById", "WatchById"} THEN r.Id = call.key
           ELSE r.Number = call.key}

\* the row's public props decode and satisfy the queries of the call
SatisfiesQueries(r) ==
    /\ r.PropsOk
    /\ reqQueries = <<>> \/ \E g \in 1..Len(reqQueries) :
                               PropQueries_match(reqQueries[g], r.Props) = "true"

\* C14: JoinById and JoinByNumber dispatch a join RPC only for a room whose row is
\* joinable and whose public props satisfy the queries (or the queries are empty),
\* and send it to the game host the row's host_id names; when no row is found or the
\* filter rejects it they return status 200 "No joinable room found" with no RPC.
C14_JoinByDispatch ==
    (IsJoinCall /\ pc = "done") =>
        /\ Len(rpcLog) <= 1
        /\ \A i \in 1..Len(rpcLog) :
              \E r \in KeyedRows :
                  /\ r.Joinable
                  /\ SatisfiesQueries(r)
                  /\ rpcLog[i] = [host |-> r.HostId, room |-> r.Id]
        /\ (/\ call.app \in apps
            /\ \A r \in KeyedRows : ~r.Joinable \/ (r.PropsOk /\ ~SatisfiesQueries(r)))
              => /\ result = withStatus(200, "No joinable room found")
                 /\ rpcLog = <<>>

\* a JoinById with queries that dispatched its RPC to the live host of the row
C14_Witness ==
    /\ call.op = "JoinById"
    /\ Dispatched
    /\ reqQueries # <<>>
    /\ rpcLog[1] = [host |-> LiveHost, room |-> 1]
    /\ result.kind = "ok"

\* the hubs of the room below the watcher cap
HubsBelowCap ==
    {hubRows[i].host_id : i \in {j \in 1..Len(hubRows) : hubRows[j].watchers < 10000}}

\* C15: watch selects its hub as follows: if at least one hub row of the room has
\* watchers < maxWatchers the chosen hub is one of those hubs; only when there is
\* none is the hub taken from the live hub cache.
C15_HubSelection ==
    (IsWatchCall /\ Dispatched) =>
        IF HubsBelowCap # {} THEN rpcLog[1].host \in HubsBelowCap
        ELSE rpcLog[1].host \in hubCache

\* a watch sent to the hub below the cap while a full hub of the room is live too
C15_Witness ==
    /\ IsWatchCall
    /\ Dispatched
    /\ Len(hubRows) = 2
    /\ hubRows[1].watchers = 10000
    /\ hubRows[1].host_id \in hubCache
    /\ rpcLog[1].host = hubRows[2].host_id

\* C16: when the only live hub serving room R already has maxWatchers watchers, a
\* further Watch of R returns the "no watchable room found" (status 200) response.
C16_WatcherCap ==
    (/\ IsWatchCall /\ pc = "done"
     /\ call.app \in apps
     /\ \E r \in KeyedRows : r.Watchable /\ SatisfiesQueries(r)
     /\ Len(hubRows) = 1
     /\ hubRows[1].watchers = 10000
     /\ hubCache = {hubRows[1].host_id})
        => result = withStatus(200, "No watchable room found")

\* C17: watch classifies every remote error code as join does (ResourceExhausted
\* 200 "Room full", AlreadyExists 409, InvalidArgument 400, others no status tag),
\* except that NotFound and FailedPrecondition give 200 "No watchable room found".
C17_WatchClassification ==
    (IsWatchCall /\ Dispatched /\ RemoteCode # "OK") =>
        IF RemoteCode \in {"NotFound", "FailedPrecondition"}
        THEN result = withStatus(200, "No watchable room found")
        ELSE /\ result.kind = "err"
             /\ result.status = joinError(RemoteCode).status
             /\ result.status # 0 => result.msg = joinError(RemoteCode).msg

\* C18: Search only consults the room cache and returns the filtered rooms: the
\* step dispatches no RPC and changes no room, host or registry state.
C18_SearchFrame ==
    [][(call.op = "Search" /\ pc = "ready") =>
          /\ rpcLog' = rpcLog
          /\ <<roomCache, gameCache, hubCache, dbRooms, hubRows, apps>>' =
                <<roomCache, gameCache, hubCache, dbRooms, hubRows, apps>>
          /\ result'.kind = "rooms" =>
                result'.rooms = filter(roomCache.rooms, roomCache.props, reqQueries,
                                       call.limit, call.joinable, call.watchable).filtered]_vars

\* a Search that returned one of the two rooms of the cache
C18_Witness ==
    /\ call.op = "Search"
    /\ pc = "done"
    /\ result.kind = "rooms"
    /\ Len(roomCache.rooms) = 2
    /\ Len(result.rooms) = 1
    /\ rpcLog = <<>>

\* C37: JoinByNumber called with room number 0 returns an error without dispatching
\* a join: a room created without a number (number 0) is never reached through
\* JoinByNumber or WatchByNumber.
C37_NumberZeroIsRejected ==
    (call.op \in {"JoinByNumber", "WatchByNumber"} /\ pc = "done" /\ call.key = 0) =>
        /\ rpcLog = <<>>
        /\ result.kind = "err"

(* ------------------------------ Repository ---------------------------- *)

lenId == 16

\* Most concurrent CreateRoom calls.
MaxCreates == 2

\* conf.RetryCount
RetryCount == 2

\* conf.MaxRoomNum
MaxRoomNum == 2

HexDigits ==
    <<"0", "1", "2", "3", "4", "5", "6", "7", "8", "9", "a", "b", "c", "d", "e", "f">>

\* hex.EncodeToString: two digits for every byte
EncodeToString(b) ==
    Concat([i \in 1..Len(b) |-> <<HexDigits[(b[i] \div 16) + 1], HexDigits[(b[i] % 16) + 1]>>])

\* RandomHex(n), with src the bytes rand.Read fills b with
RandomHex(n, src) == EncodeToString([i \in 1..n |-> src[i]])

\* the outcomes of rand.Read the ids are generated from: every byte 0x00, or 0xab
RandomSources == {[i \in 1..lenId |-> b] : b \in {0, 171}}

\* the values of RoomOption.MaxPlayers the rooms are created with
MaxPlayersVals == {0, 2}

\* the room table's answer to an INSERT: a row with the same id, or with the same
\* number when the number is set, is a duplicate-key error
DuplicateKey(ri, rows) ==
    \E r \in rows : r.Id = ri.Id \/ (ri.Number # 0 /\ r.Number = ri.Number)

\* the error tx.NamedExecContext returns: a duplicate key, another SQL error (fault),
\* or none
insertErr(ri, rows, fault) ==
    IF DuplicateKey(ri, rows) THEN "duplicate" ELSE IF fault THEN "other" ELSE "none"

\* variant: the error of the INSERT is not looked at
insertOk_Always(err) == TRUE

\* if err == nil { return ri, nil }
insertOk(err) == err = "none"

\* the loop of newRoomInfo goes on after any error of the INSERT
retries(err) == err # "none"

\* Players: 1
InitialPlayers == 1

\* the RoomOptions of the calls of newRoomInfo
RoomOptions ==
    [Visible : BOOLEAN, Joinable : BOOLEAN, Watchable : BOOLEAN, SearchGroup : {0, 1},
     MaxPlayers : MaxPlayersVals, PublicProps : {<<>>, MarshalByte(1)}]

\* ri := &pb.RoomInfo{...}: the fields newRoomInfo sets from the RoomOption; a field
\* the literal does not name keeps its zero value
RoomInfoLiteral(op) ==
    [Id |-> <<>>, Number |-> 0, Visible |-> op.Visible, Joinable |-> FALSE,
     Watchable |-> op.Watchable, SearchGroup |-> op.SearchGroup,
     MaxPlayers |-> op.MaxPlayers, Players |-> InitialPlayers,
     PublicProps |-> op.PublicProps]

\* ri as newRoomInfo builds it from the RoomOption, before the loop: the columns the
\* CreateRoom calls are followed on
newRoomInfoRow(MaxPlayers) ==
    LET ri == RoomInfoLiteral([Visible |-> FALSE, Joinable |-> FALSE, Watchable |-> FALSE,
                               SearchGroup |-> 0, MaxPlayers |-> MaxPlayers,
                               PublicProps |-> <<>>])
    IN  [Id |-> ri.Id, Number |-> ri.Number, MaxPlayers |-> ri.MaxPlayers,
         Players |-> ri.Players]

NoInfo == [Id |-> <<>>, Number |-> 0, MaxPlayers |-> 0, Players |-> 0]

\* the rows inserted by the open transactions of the calls other than p
PendingRows(p) ==
    {creates[q].ri : q \in {c \in DOMAIN creates : c # p /\ creates[c].held}}

\* variant: the row of the transaction stays in the table
rollback_Keeps(rows, ri, held) == IF held THEN rows \cup {ri} ELSE rows

\* tx.Rollback(): the table is left without the row the transaction inserted
rollback(rows, ri, held) == rows

\* delete(repo.rooms, rid)
deleteKey(rooms, rid) == {r \in rooms : r.Id # rid}

\* the table after DELETE FROM room WHERE id=?: unchanged when the query failed
deleteRoom(rows, rid, err) == IF err THEN rows ELSE {r \in rows : r.Id # rid}

\* the holders of repo.mu
Free == <<>>

RepoFrame ==
    UNCHANGED <<lobbyVars, apps, hubRows, hubCache, call, queryVars, groupVars, filterVars,
                roomVars, soakVars, decodeVars, clients, infoCall>>

\* CreateRoom up to the loop of newRoomInfo: the context with its deadline, Beginx,
\* ri built from the RoomOption
CreateRoomBegin(p) ==
    /\ creates[p].pc = "idle"
    /\ creates' = [creates EXCEPT ![p].pc = "loop",
                                  ![p].ri = newRoomInfoRow(creates[p].MaxPlayers)]
    /\ UNCHANGED <<dbRooms, repoRooms, repoClients, mu, removes>>
    /\ RepoFrame

\* what is left of a call that has failed: its locals are gone
failed(c, at) == [c EXCEPT !.pc = "failed", !.at = at, !.n = 0, !.ri = NoInfo, !.held = FALSE]

\* one iteration of the loop of newRoomInfo, done telling whether ctx.Err() is set;
\* an INSERT that meets a row of an open transaction waits for that transaction to
\* end. err is the error of the last INSERT while the call is in the loop or failed.
NewRoomInfoTry(p) ==
    /\ creates[p].pc = "loop"
    /\ creates[p].n < RetryCount
    /\ \E done \in BOOLEAN :
         IF done
         THEN creates' = [creates EXCEPT ![p] = failed(@, "insert")]
         ELSE \E src \in RandomSources, number \in 1..MaxRoomNum, fault \in BOOLEAN :
                LET ri == [creates[p].ri EXCEPT
                              !.Id = RandomHex(lenId, src),
                              !.Number = IF creates[p].WithNumber THEN number ELSE @]
                    err == insertErr(ri, dbRooms, fault)
                IN  /\ ~DuplicateKey(ri, PendingRows(p))
                    /\ creates' =
                          IF insertOk(err)
                          THEN [creates EXCEPT ![p].pc = "room", ![p].ri = ri, ![p].n = 0,
                                               ![p].err = "none", ![p].held = (err = "none")]
                          ELSE IF retries(err)
                          THEN [creates EXCEPT ![p].n = @ + 1, ![p].err = err]
                          ELSE [creates EXCEPT ![p] = failed([@ EXCEPT !.err = err], "insert")]
    /\ dbRooms' = rollback(dbRooms, creates[p].ri, FALSE)
    /\ UNCHANGED <<repoRooms, repoClients, mu, removes>>
    /\ RepoFrame

\* the loop of newRoomInfo ran RetryCount times: CreateRoom rolls back and fails
NewRoomInfoGiveUp(p) ==
    /\ creates[p].pc = "loop"
    /\ creates[p].n >= RetryCount
    /\ creates' = [creates EXCEPT ![p] = failed(@, "insert")]
    /\ dbRooms' = rollback(dbRooms, creates[p].ri, FALSE)
    /\ UNCHANGED <<repoRooms, repoClients, mu, removes>>
    /\ RepoFrame

\* NewRoom has built the room and started its event loop, and the select of
\* CreateRoom receives the reply to the master's join
CreateRoomJoined(p) ==
    /\ creates[p].pc = "room"
    /\ creates' = [creates EXCEPT ![p].pc = "token"]
    /\ removes' = [removes EXCEPT ![p] = [pc |-> "running", Id |-> creates[p].ri.Id]]
    /\ UNCHANGED <<dbRooms, repoRooms, repoClients, mu>>
    /\ RepoFrame

\* NewRoom fails, the joined channel is closed or the context is done (at "room"),
\* or no token is issued (at "token"): CreateRoom rolls back and fails
CreateRoomRollback(p) ==
    /\ creates[p].pc \in {"room", "token"}
    /\ creates' = [creates EXCEPT ![p] = failed(@, creates[p].pc)]
    /\ dbRooms' = rollback(dbRooms, creates[p].ri, creates[p].held)
    /\ UNCHANGED <<repoRooms, repoClients, mu, removes>>
    /\ RepoFrame

\* the token is issued; repo.mu.Lock(), then the room and its master are indexed;
\* tx.Commit() is next
CreateRoomLock(p) ==
    /\ creates[p].pc = "token"
    /\ mu = Free
    /\ mu' = <<"CreateRoom", p>>
    /\ repoRooms' = deleteKey(repoRooms, creates[p].ri.Id)
                        \cup {[Id |-> creates[p].ri.Id, Room |-> p]}
    /\ repoClients' = repoClients \cup {[Client |-> p, Room |-> creates[p].ri.Id]}
    /\ creates' = [creates EXCEPT ![p].pc = "commit"]
    /\ UNCHANGED <<dbRooms, removes>>
    /\ RepoFrame

\* the table after tx.Commit(): with the row of the transaction, unless the commit
\* failed
commit(rows, ri, held, err) == IF held /\ ~err THEN rows \cup {ri} ELSE rows

\* tx.Commit() has ended, its error dropped; CreateRoom returns the room and its
\* deferred Unlock runs
CreateRoomCommit(p) ==
    /\ creates[p].pc = "commit"
    /\ \E err \in BOOLEAN : dbRooms' = commit(dbRooms, creates[p].ri, creates[p].held, err)
    /\ mu' = Free
    /\ creates' = [creates EXCEPT ![p].pc = "returned", ![p].held = FALSE]
    /\ UNCHANGED <<repoRooms, repoClients, removes>>
    /\ RepoFrame

\* the event loop of the room ends and calls RemoveRoom
RoomLoopExit(p) ==
    /\ removes[p].pc = "running"
    /\ removes' = [removes EXCEPT ![p].pc = "exited"]
    /\ UNCHANGED <<creates, dbRooms, repoRooms, repoClients, mu>>
    /\ RepoFrame

\* RemoveRoom: repo.mu.Lock() and delete(repo.rooms, rid); deleteRoom is next
RemoveRoomLock(p) ==
    /\ removes[p].pc = "exited"
    /\ mu = Free
    /\ mu' = <<"RemoveRoom", p>>
    /\ repoRooms' = deleteKey(repoRooms, removes[p].Id)
    /\ removes' = [removes EXCEPT ![p].pc = "delete"]
    /\ UNCHANGED <<creates, dbRooms, repoClients>>
    /\ RepoFrame

\* the DELETE of deleteRoom has ended, its error only logged; RemoveRoom returns and
\* its deferred Unlock runs. A DELETE that meets the row of an open transaction
\* waits for it, and fails when the wait times out.
RemoveRoomDelete(p) ==
    /\ removes[p].pc = "delete"
    /\ \E err \in BOOLEAN :
         /\ DuplicateKey([Id |-> removes[p].Id, Number |-> 0], PendingRows(0)) => err
         /\ dbRooms' = deleteRoom(dbRooms, removes[p].Id, err)
    /\ mu' = Free
    /\ removes' = [removes EXCEPT ![p].pc = "returned"]
    /\ UNCHANGED <<creates, repoRooms, repoClients>>
    /\ RepoFrame

\* a row of an earlier room, with a number
OldRoom ==
    [Id |-> RandomHex(lenId, [i \in 1..lenId |-> 0]), Number |-> 1, MaxPlayers |-> 2,
     Players |-> 1]

\* calls CreateRoom calls about to start, in a repository with no room yet
InitCalls(calls) ==
    /\ \E ws \in [1..calls -> BOOLEAN], mp \in MaxPlayersVals :
         creates = [p \in 1..calls |->
                      [pc |-> "idle", at |-> "", n |-> 0, ri |-> NoInfo, held |-> FALSE,
                       WithNumber |-> ws[p], MaxPlayers |-> mp, err |-> "none"]]
    /\ repoRooms = {}
    /\ repoClients = {}
    /\ mu = Free
    /\ removes = [p \in 1..calls |-> [pc |-> "none", Id |-> <<>>]]
    /\ clients = <<>>
    /\ infoCall = [pc |-> "none"]
    /\ dbRooms \in {{}, {OldRoom}}
    /\ apps = {"app1"}
    /\ hubRows = <<>>
    /\ hubCache = {}
    /\ call = NoCall
    /\ LobbyIdle
    /\ QueryIdle
    /\ GroupIdle
    /\ FilterIdle
    /\ RoomIdle
    /\ SoakIdle
    /\ DecodeIdle

InitRepo == InitCalls(MaxCreates)

NextRepo ==
    \E p \in DOMAIN creates :
        \/ CreateRoomBegin(p)
        \/ NewRoomInfoTry(p)
        \/ NewRoomInfoGiveUp(p)
        \/ CreateRoomJoined(p)
        \/ CreateRoomRollback(p)
        \/ CreateRoomLock(p)
        \/ CreateRoomCommit(p)

SpecRepo == InitRepo /\ [][NextRepo]_vars

\* one CreateRoom call, and the event loop of its room ending at any time
InitRemove == InitCalls(1)

NextRemove ==
    \/ NextRepo
    \/ \E p \in DOMAIN removes :
          \/ RoomLoopExit(p)
          \/ RemoveRoomLock(p)
          \/ RemoveRoomDelete(p)

SpecRemove == InitRemove /\ [][NextRemove]_vars

\* the id of the room of the loop
RoomId == RandomHex(lenId, [i \in 1..lenId |-> 0])

(* ------------------------ the row of newRoomInfo ---------------------- *)

\* newRoomInfo for a room without number on an empty table: the row is built from the
\* RoomOption and inserted under a fresh id, or every INSERT fails and no row is left
NewRoomInfo ==
    /\ infoCall.pc = "idle"
    /\ \E src \in RandomSources, fault \in BOOLEAN :
         LET ri == [RoomInfoLiteral(infoCall.op) EXCEPT !.Id = RandomHex(lenId, src)]
         IN  IF insertOk(insertErr(ri, dbRooms, fault))
             THEN /\ dbRooms' = dbRooms \cup {ri}
                  /\ infoCall' = [infoCall EXCEPT !.pc = "returned"]
             ELSE /\ dbRooms' = dbRooms
                  /\ infoCall' = [infoCall EXCEPT !.pc = "failed"]
    /\ UNCHANGED <<lobbyVars, apps, hubRows, hubCache, call, queryVars, groupVars,
                   filterVars, roomVars, soakVars, decodeVars, creates, repoRooms,
                   repoClients, mu, removes, clients>>

InitRoomInfo ==
    /\ \E op \in RoomOptions : infoCall = [pc |-> "idle", op |-> op]
    /\ dbRooms = {}
    /\ apps = {"app1"}
    /\ hubRows = <<>>
    /\ hubCache = {}
    /\ call = NoCall
    /\ creates = <<>>
    /\ repoRooms = {}
    /\ repoClients = {}
    /\ mu = Free
    /\ removes = <<>>
    /\ clients = <<>>
    /\ LobbyIdle
    /\ QueryIdle
    /\ GroupIdle
    /\ FilterIdle
    /\ RoomIdle
    /\ SoakIdle
    /\ DecodeIdle

NextRoomInfo == NewRoomInfo

SpecRoomInfo == InitRoomInfo /\ [][NextRoomInfo]_vars

(* ----------------------- Repository.clients --------------------------- *)

\* the Clients the room creates, one per accepted join
MaxClients == 3

Users == {"u1", "u2"}

\* the key of repo.clients[cid][rid]: the user of the Client and the room
SameKey(e, k, rid) == clients[e.Client].user = clients[k].user /\ e.Room = rid

\* repo.clients[cli.ID()][room.ID()] = cli
putClient(cs, k, rid) == {e \in cs : ~SameKey(e, k, rid)} \cup {[Client |-> k, Room |-> rid]}

\* delete(cmap, rid), cmap being repo.clients[cid]: whatever Client is stored there
deleteClient(cs, k, rid) == {e \in cs : ~SameKey(e, k, rid)}

\* GetClient(roomId, userId): the Clients found, none when it answers "client not found"
GetClient(cs, rid, user) == {e.Client : e \in {x \in cs : clients[x.Client].user = user /\ x.Room = rid}}

ClientFrame ==
    UNCHANGED <<lobbyVars, serviceVars, queryVars, groupVars, filterVars, roomVars, soakVars,
                decodeVars, creates, repoRooms, removes, infoCall>>

\* joinRoom for the user of k up to its lock: the loop of the room takes the join,
\* which it rejects while the user is present, creates Client k and starts its loop,
\* and joinRoom receives the reply and issues the token
JoinRoomJoined(k) ==
    /\ clients[k].pc = "idle"
    /\ \A j \in DOMAIN clients : clients[j].user = clients[k].user => clients[j].life # "active"
    /\ clients' = [clients EXCEPT ![k].pc = "joined", ![k].life = "active"]
    /\ UNCHANGED <<repoClients, mu>>
    /\ ClientFrame

\* joinRoom from repo.mu.Lock() to its return: the Client is indexed
JoinRoomRegister(k) ==
    /\ clients[k].pc = "joined"
    /\ mu = Free
    /\ repoClients' = putClient(repoClients, k, RoomId)
    /\ clients' = [clients EXCEPT ![k].pc = "returned"]
    /\ UNCHANGED mu
    /\ ClientFrame

\* the loop of Client k exits: Leave, timeout, eviction; the room has let it go
ClientLoopExit(k) ==
    /\ clients[k].life = "active"
    /\ clients' = [clients EXCEPT ![k].life = "exited"]
    /\ UNCHANGED <<repoClients, mu>>
    /\ ClientFrame

\* RemoveClient(cli), called once the loop of the Client has exited
RemoveClient(k) ==
    /\ clients[k].life = "exited"
    /\ mu = Free
    /\ repoClients' = deleteClient(repoClients, k, RoomId)
    /\ clients' = [clients EXCEPT ![k].life = "removed"]
    /\ UNCHANGED mu
    /\ ClientFrame

\* MaxClients joins of two users about to be made to one room, no Client indexed yet
InitClients ==
    /\ \E us \in [1..MaxClients -> Users] :
         clients = [k \in 1..MaxClients |-> [user |-> us[k], pc |-> "idle", life |-> "none"]]
    /\ creates = <<>>
    /\ repoRooms = {}
    /\ repoClients = {}
    /\ mu = Free
    /\ removes = <<>>
    /\ infoCall = [pc |-> "none"]
    /\ LobbyIdle
    /\ ServiceIdle
    /\ QueryIdle
    /\ GroupIdle
    /\ FilterIdle
    /\ RoomIdle
    /\ SoakIdle
    /\ DecodeIdle

NextClients ==
    \E k \in DOMAIN clients :
        \/ JoinRoomJoined(k)
        \/ JoinRoomRegister(k)
        \/ ClientLoopExit(k)
        \/ RemoveClient(k)

SpecClients == InitClients /\ [][NextClients]_vars

(* --------------------------- claims: Repository ----------------------- *)

\* the calls that have returned a room
Returned == {p \in DOMAIN creates : creates[p].pc = "returned"}

\* C19: after any number of concurrent CreateRoom calls in one app, every returned
\* room id is unique and every non-zero room number is unique.
C19_IdNumberUnique ==
    \A p, q \in Returned :
        p # q =>
            /\ creates[p].ri.Id # creates[q].ri.Id
            /\ creates[p].ri.Number # 0 => creates[p].ri.Number # creates[q].ri.Number

\* two calls have returned rooms with numbers
C19_Witness ==
    /\ Returned = 1..2
    /\ creates[1].ri.Number # 0
    /\ creates[2].ri.Number # 0

\* the ids the Repository has generated so far
GeneratedIds == {creates[p].ri.Id : p \in {c \in DOMAIN creates : creates[c].ri.Id # <<>>}}

\* C20: every room id generated by the Repository is a string of exactly 16
\* lowercase hexadecimal characters.
C20_IdIs16LowerHex ==
    \A id \in GeneratedIds :
        /\ Len(id) = 16
        /\ \A i \in 1..Len(id) : id[i] \in {HexDigits[k] : k \in 1..16}

\* C21: the loop of newRoomInfo retries the INSERT only after an id/number
\* uniqueness collision; an INSERT that fails with any other SQL error is not
\* retried, the call fails at once.
C21_OnlyCollisionsRetried ==
    \A p \in DOMAIN creates : creates[p].err = "other" => creates[p].pc = "failed"

\* C22: a CreateRoom that fails at any step (row insertion, room construction, closed
\* join-reply channel or context done, token issue) rolls its transaction back: the
\* failing step commits no row and leaves repo.rooms and repo.clients unchanged, and
\* the failed call holds no row and has indexed neither a room nor a client.
C22_FailureRollsBack ==
    [][\A p \in DOMAIN creates :
          creates'[p].pc = "failed" =>
              /\ ~creates'[p].held
              /\ \A r \in repoRooms' : r.Room # p
              /\ \A c \in repoClients' : c.Client # p
              /\ creates[p].pc # "failed" =>
                    /\ dbRooms' = dbRooms
                    /\ repoRooms' = repoRooms
                    /\ repoClients' = repoClients]_vars

\* a call has failed at the token after its INSERT, next to a call that returned
C22_Witness ==
    \E p, q \in DOMAIN creates :
        /\ creates[p].pc = "failed"
        /\ creates[p].at = "token"
        /\ creates[q].pc = "returned"
        /\ repoRooms # {}

\* the rows the table has been given: committed, or inserted by an open transaction
InsertedRows == dbRooms \cup PendingRows(0)

\* C23: the player count of a room never exceeds its max_players in any room row,
\* starting with the row CreateRoom inserts with players = 1, for every
\* RoomOption.MaxPlayers.
C23_PlayersWithinCapacity ==
    \A r \in InsertedRows : r.Players <= r.MaxPlayers

\* C26: repo.mu is never held while a database call is in progress: not by CreateRoom
\* during tx.Commit(), not by RemoveRoom during the DELETE of deleteRoom.
C26_NoIoUnderMu ==
    /\ \A p \in DOMAIN creates : creates[p].pc = "commit" => mu # <<"CreateRoom", p>>
    /\ \A p \in DOMAIN removes : removes[p].pc = "delete" => mu # <<"RemoveRoom", p>>

\* C29: after the loop of a room has exited and RemoveRoom has returned, the room is
\* absent from repo.rooms and its row is absent from the room table.
C29_RemovedRoomIsGone ==
    \A p \in DOMAIN removes :
        removes[p].pc = "returned" =>
            /\ \A r \in repoRooms : r.Room # p
            /\ \A r \in dbRooms : r.Id # removes[p].Id

\* C31: CreateRoom returns a JoinedRoomRes, and leaves the room indexed in
\* repo.rooms, only if the commit of its transaction succeeded: the row of every
\* room a call has returned is in the room table.
C31_ReturnedOnlyIfCommitted ==
    \A p \in Returned :
        (\E r \in repoRooms : r.Room = p) => creates[p].ri \in dbRooms

\* C34: once RemoveRoom(r) has returned, r is never present in repo.rooms afterwards
\* and no row for r is committed afterwards, also when RemoveRoom runs while
\* CreateRoom for r is between the master's join reply and the indexing of the room.
C34_RemovedRoomStaysGone ==
    [][\A p \in DOMAIN removes :
          removes[p].pc = "returned" =>
              /\ \A r \in repoRooms' : r.Id # removes[p].Id
              /\ \A r \in dbRooms' \ dbRooms : r.Id # removes[p].Id]_vars

\* C32: RemoveClient(cli) removes from repo.clients only the entry that refers to
\* that same Client: when the user has joined the room again in the meantime, the
\* entry of the newer Client stays, under every interleaving of joinRoom and
\* RemoveClient.
C32_RemovesOnlyOwnEntry ==
    [][\A k \in DOMAIN clients :
          clients[k].life = "exited" /\ clients'[k].life = "removed" =>
              \A e \in repoClients \ repoClients' : e.Client = k]_vars

\* C33: once a Client has left its room and RemoveClient for it has returned,
\* GetClient reports not found until its user joins again, also when RemoveClient
\* ran before joinRoom indexed the Client.
C33_RemovedClientNotFound ==
    \A k \in DOMAIN clients :
        /\ clients[k].life = "removed"
        /\ \A j \in DOMAIN clients :
              j # k /\ clients[j].user = clients[k].user => clients[j].life = "none"
        => GetClient(repoClients, RoomId, clients[k].user) = {}

\* C40: the room row inserted by CreateRoom carries visible, joinable, watchable,
\* search_group, max_players and props equal to the RoomOption's values; a room
\* created with Joinable = true is persisted as joinable.
C40_RowCarriesOptions ==
    infoCall.pc = "returned" =>
        \A r \in dbRooms :
            /\ r.Visible = infoCall.op.Visible
            /\ r.Joinable = infoCall.op.Joinable
            /\ r.Watchable = infoCall.op.Watchable
            /\ r.SearchGroup = infoCall.op.SearchGroup
            /\ r.MaxPlayers = infoCall.op.MaxPlayers
            /\ r.PublicProps = infoCall.op.PublicProps

(* ---------------------- Room loop, joinRoom and events ---------------- *)

regularEvType == 30

EvTypePeerReady == 1

EvTypePong == EvTypePeerReady + 1

EvTypeJoined == regularEvType

EvTypeMessage == regularEvType + 4

EvTypeMasterSwitched == regularEvType + 5

EvTypeLeft == regularEvType + 6

\* Most joinRoom calls next to the events of the room.
MaxJoins == 1

\* Most messages the clients of the room send.
MaxSends == 2

\* The capacity of Room.msgCh.
MsgChCap == 1

\* a u32, big-endian
Put32(v) == <<(v \div 16777216) % 256, (v \div 65536) % 256, (v \div 256) % 256, v % 256>>

\* reader.Get32() with the reader at the 1-based position i
Get32(b, i) == b[i] * 16777216 + b[i + 1] * 65536 + b[i + 2] * 256 + b[i + 3]

\* the bytes of an event on the wire: the type, the sequence number of a regular
\* event (a u32; the runs stay far below its wraparound), the payload
MarshalEvent(type, seq, payload) ==
    IF type >= regularEvType THEN <<type>> \o Put32(seq) \o payload
    ELSE <<type>> \o payload

\* variant: the first regular type is taken for a non-regular one
IsRegular_Above(type) == type > regularEvType

\* Event.IsRegular
IsRegular(type) == type >= regularEvType

\* the constructor Event(type, reader), the reader standing after the type byte of
\* buf: pos is the number of bytes read when it returns; Get32 past the end throws
Event(type, buf) ==
    IF IsRegular(type)
    THEN IF Len(buf) >= 5
         THEN [Type |-> type, SequenceNum |-> Get32(buf, 2), pos |-> 5, exception |-> FALSE]
         ELSE [Type |-> type, SequenceNum |-> 0, pos |-> 1, exception |-> TRUE]
    ELSE [Type |-> type, SequenceNum |-> 0, pos |-> 1, exception |-> FALSE]

\* the players without c, in join order
Without(players, c) == SelectSeq(players, LAMBDA x : x # c)

Range(f) == {f[i] : i \in DOMAIN f}

\* Join is rejected: the room is full, or the client id is already present
JoinRejected(r, c) == Len(r.players) >= r.MaxPlayers \/ c \in Range(r.players)

\* variant: the latest-joined remaining player becomes the master
NextMaster_Latest(remaining) == remaining[Len(remaining)]

\* the oldest-joined remaining player
NextMaster(remaining) == Head(remaining)

NoReply == [state |-> "none", Players |-> <<>>, MasterId |-> 0, Client |-> 0]

\* JoinedInfo: the snapshot the loop replies with
JoinedInfo(r, c) ==
    [state |-> "joined", Players |-> r.players, MasterId |-> r.master, Client |-> c]

NoRes == [Players |-> <<>>, MasterId |-> 0]

\* variant: the joining client is reported as the master
JoinedRoomRes_Self(joined) == [Players |-> joined.Players, MasterId |-> joined.Client]

\* &pb.JoinedRoomRes{Players: joined.Players, MasterId: string(joined.MasterId), ...}
JoinedRoomRes(joined) == [Players |-> joined.Players, MasterId |-> joined.MasterId]

\* repo.GetRoom(id): the room indexed under id, if any
GetRoom(rooms, id) == {r \in rooms : r.Id = id}

RoomFrame ==
    UNCHANGED <<lobbyVars, serviceVars, queryVars, groupVars, filterVars, creates, mu,
                removes, clients, infoCall, soakVars, decodeVars>>

\* joinRoom up to the send: the context with its deadline, GetRoom, the message
JoinRoomGet(j) ==
    /\ joins[j].pc = "idle"
    /\ \E id \in {RoomId, <<>>}, isPlayer \in BOOLEAN :
         joins' = IF GetRoom(repoRooms, id) = {}
                  THEN [joins EXCEPT ![j].pc = "failed"]
                  ELSE [joins EXCEPT ![j].pc = "send", ![j].isPlayer = isPlayer]
    /\ UNCHANGED <<roomState, msgCh, evlog, repoRooms, repoClients>>
    /\ RoomFrame

\* room.msgCh <- msg: the send waits for room in the channel, whatever the context
JoinRoomSend(j) ==
    /\ joins[j].pc = "send"
    /\ Len(msgCh) < MsgChCap
    /\ msgCh' = Append(msgCh, [type |-> IF joins[j].isPlayer THEN "join" ELSE "watch",
                               client |-> joins[j].client, call |-> j])
    /\ joins' = [joins EXCEPT ![j].pc = "wait"]
    /\ UNCHANGED <<roomState, evlog, repoRooms, repoClients>>
    /\ RoomFrame

\* the select receives from ch: a closed channel or a failing issueAuthToken is an
\* error; else the client is indexed under repo.mu and the JoinedRoomRes returned
JoinRoomReply(j) ==
    /\ joins[j].pc = "wait"
    /\ joins[j].reply.state # "none"
    /\ mu = Free
    /\ \E tokenOk \in BOOLEAN :
         IF joins[j].reply.state = "closed" \/ ~tokenOk
         THEN /\ joins' = [joins EXCEPT ![j].pc = "failed", ![j].reply = NoReply]
              /\ UNCHANGED repoClients
         ELSE /\ joins' = [joins EXCEPT ![j].pc = "returned", ![j].reply = NoReply,
                                        ![j].res = JoinedRoomRes(joins[j].reply)]
              /\ repoClients' = repoClients \cup {[Client |-> joins[j].reply.Client,
                                                   Room |-> RoomId]}
    /\ UNCHANGED <<roomState, msgCh, evlog, repoRooms>>
    /\ RoomFrame

\* the 5 s deadline of the call passes, or its caller cancels
JoinRoomCtxDone(j) ==
    /\ joins[j].pc \in {"send", "wait"}
    /\ ~joins[j].ctxDone
    /\ joins' = [joins EXCEPT ![j].ctxDone = TRUE]
    /\ UNCHANGED <<roomState, msgCh, evlog, repoRooms, repoClients>>
    /\ RoomFrame

\* the select receives from ctx.Done()
JoinRoomTimeout(j) ==
    /\ joins[j].pc = "wait"
    /\ joins[j].ctxDone
    /\ joins' = [joins EXCEPT ![j].pc = "failed"]
    /\ UNCHANGED <<roomState, msgCh, evlog, repoRooms, repoClients>>
    /\ RoomFrame

\* the reader of a player forwards a message of the client to the loop; the sender
\* matters to the loop for a leave only
ClientSend(c, kind) ==
    /\ c \in Range(roomState.players)
    /\ roomState.sent < MaxSends
    /\ Len(msgCh) < MsgChCap
    /\ msgCh' = Append(msgCh, [type |-> kind, client |-> IF kind = "leave" THEN c ELSE 0,
                               call |-> 0])
    /\ roomState' = [roomState EXCEPT !.sent = @ + 1]
    /\ UNCHANGED <<joins, evlog, repoRooms, repoClients>>
    /\ RoomFrame

\* the loop receives msg of the given type from msgCh
Receives(type) ==
    /\ roomState.running
    /\ msgCh # <<>>
    /\ Head(msgCh).type = type
    /\ msgCh' = Tail(msgCh)
    /\ UNCHANGED <<repoRooms, repoClients>>
    /\ RoomFrame

\* Join: rejected, or a Joined event, the new player and the reply
RoomJoin ==
    /\ Receives("join")
    /\ LET msg == Head(msgCh)
           joined == [roomState EXCEPT !.players = Append(@, msg.client), !.seq = @ + 1]
       IN  IF JoinRejected(roomState, msg.client)
           THEN /\ joins' = [joins EXCEPT ![msg.call].reply = [NoReply EXCEPT !.state = "closed"]]
                /\ UNCHANGED <<roomState, evlog>>
           ELSE /\ roomState' = joined
                /\ evlog' = Append(evlog, MarshalEvent(EvTypeJoined, joined.seq, <<msg.client>>))
                /\ joins' = [joins EXCEPT ![msg.call].reply = JoinedInfo(joined, msg.client)]

\* Watch: the watcher is not counted in players and no Joined event is broadcast
RoomWatch ==
    /\ Receives("watch")
    /\ joins' = [joins EXCEPT ![Head(msgCh).call].reply = JoinedInfo(roomState, Head(msgCh).client)]
    /\ UNCHANGED <<roomState, evlog>>

\* Leave: the client is removed; a leaving master is succeeded by the oldest-joined
\* remaining player and MasterSwitched is emitted; Left is emitted; with no player
\* left the room shuts down and its loop receives no more
RoomLeave ==
    /\ Receives("leave")
    /\ UNCHANGED joins
    /\ LET c == Head(msgCh).client
           remaining == Without(roomState.players, c)
       IN  IF c \notin Range(roomState.players)
           THEN UNCHANGED <<roomState, evlog>>
           ELSE IF remaining = <<>>
           THEN /\ roomState' = [roomState EXCEPT !.players = remaining, !.seq = @ + 1,
                                                  !.running = FALSE]
                /\ evlog' = Append(evlog, MarshalEvent(EvTypeLeft, roomState.seq + 1, <<c>>))
           ELSE IF c = roomState.master
           THEN /\ roomState' = [roomState EXCEPT !.players = remaining, !.seq = @ + 2,
                                                  !.master = NextMaster(remaining)]
                /\ evlog' = evlog \o
                      <<MarshalEvent(EvTypeMasterSwitched, roomState.seq + 1,
                                     <<NextMaster(remaining)>>),
                        MarshalEvent(EvTypeLeft, roomState.seq + 2, <<c>>)>>
           ELSE /\ roomState' = [roomState EXCEPT !.players = remaining, !.seq = @ + 1]
                /\ evlog' = Append(evlog, MarshalEvent(EvTypeLeft, roomState.seq + 1, <<c>>))

\* Broadcast: a Message event with the next sequence number
RoomBroadcast ==
    /\ Receives("broadcast")
    /\ roomState' = [roomState EXCEPT !.seq = @ + 1]
    /\ evlog' = Append(evlog, MarshalEvent(EvTypeMessage, roomState.seq + 1, <<Head(msgCh).client>>))
    /\ UNCHANGED joins

\* Ping: Pong is sent back
RoomPing ==
    /\ Receives("ping")
    /\ evlog' = Append(evlog, MarshalEvent(EvTypePong, 0, <<Head(msgCh).client>>))
    /\ UNCHANGED <<roomState, joins>>

RoomLoop ==
    \/ RoomJoin
    \/ RoomWatch
    \/ RoomLeave
    \/ RoomBroadcast
    \/ RoomPing

\* a running room of one or two players, indexed by the repository; the client
\* whose events are followed has attached and was sent PeerReady
InitJoins(calls) ==
    /\ \E ps \in {<<1>>, <<1, 2>>}, mp \in {2, 3} :
         roomState = [running |-> TRUE, players |-> ps, master |-> 1, MaxPlayers |-> mp,
                      seq |-> Len(ps), sent |-> 0]
    /\ msgCh = <<>>
    /\ joins = [j \in 1..calls |->
                  [pc |-> "idle", client |-> 2 + j, isPlayer |-> TRUE, ctxDone |-> FALSE,
                   reply |-> NoReply, res |-> NoRes]]
    /\ evlog = <<MarshalEvent(EvTypePeerReady, 0, <<1>>)>>
    /\ creates = <<>>
    /\ repoRooms = {[Id |-> RoomId, Room |-> 1]}
    /\ repoClients = {}
    /\ mu = Free
    /\ removes = <<>>
    /\ clients = <<>>
    /\ infoCall = [pc |-> "none"]
    /\ LobbyIdle
    /\ ServiceIdle
    /\ QueryIdle
    /\ GroupIdle
    /\ FilterIdle
    /\ SoakIdle
    /\ DecodeIdle

InitRoom == InitJoins(MaxJoins)

NextRoom ==
    \/ \E j \in DOMAIN joins :
          \/ JoinRoomGet(j)
          \/ JoinRoomSend(j)
          \/ JoinRoomReply(j)
          \/ JoinRoomCtxDone(j)
          \/ JoinRoomTimeout(j)
    \/ \E c \in 1..2, kind \in {"leave", "broadcast", "ping"} : ClientSend(c, kind)
    \/ RoomLoop

SpecRoom == InitRoom /\ [][NextRoom]_vars

\* one joinRoom call more than msgCh has room for; the goroutine of a call runs
\* whenever it can, and so does the loop of a room while it runs
JoinCalls == 1..(MsgChCap + 1)

InitJoinRoom == InitJoins(MsgChCap + 1)

SpecRoomFair ==
    /\ InitJoinRoom
    /\ [][NextRoom]_vars
    /\ \A j \in JoinCalls :
          /\ WF_vars(JoinRoomSend(j))
          /\ WF_vars(JoinRoomReply(j))
          /\ WF_vars(JoinRoomTimeout(j))
    /\ WF_vars(RoomLoop)

(* --------------------------- claims: Room, events --------------------- *)

\* the event the client constructs from the i-th event it was sent
Received(i) == Event(evlog[i][1], evlog[i])

\* the regular events among the first i events sent
RegularUpTo(i) == {k \in 1..i : evlog[k][1] >= regularEvType}

MasterLeaves ==
    /\ RoomLeave
    /\ Head(msgCh).client = roomState.master
    /\ Len(roomState.players) > 1

\* C25: when the master leaves and a player remains, the new master is the
\* earliest-joined remaining player, MasterSwitched is emitted before the Left of
\* the old master, and the JoinedRoomRes of the joins that follow name that player.
C25_MasterSuccession ==
    [][/\ MasterLeaves =>
            /\ roomState'.master = Without(roomState.players, roomState.master)[1]
            /\ Len(evlog') = Len(evlog) + 2
            /\ evlog'[Len(evlog) + 1][1] = EvTypeMasterSwitched
            /\ evlog'[Len(evlog) + 1][6] = roomState'.master
            /\ evlog'[Len(evlog) + 2][1] = EvTypeLeft
            /\ evlog'[Len(evlog) + 2][6] = roomState.master
       /\ \A j \in DOMAIN joins :
            (joins[j].pc # "returned" /\ joins'[j].pc = "returned") =>
                /\ joins'[j].res.MasterId = joins[j].reply.MasterId
                /\ joins'[j].res.MasterId = joins[j].reply.Players[1]
       /\ \A j \in DOMAIN joins :
            (joins[j].reply.state = "none" /\ joins'[j].reply.state = "joined") =>
                joins'[j].reply.MasterId = roomState'.master]_vars

\* a join has returned the second player as the master, after the first one left
C25_Witness ==
    \E j \in DOMAIN joins :
        /\ joins[j].pc = "returned"
        /\ joins[j].res.MasterId = 2
        /\ joins[j].res.Players = <<2, 2 + j>>

\* C28: joinRoom honours its deadline: once the deadline has passed or the context
\* is done, the call eventually returns, whatever the state of the room loop.
C28_DeadlineHonoured ==
    \A j \in JoinCalls :
        joins[j].ctxDone ~> joins[j].pc \in {"returned", "failed"}

(* ------------------------------- soak test ---------------------------- *)

\* Most rooms runSoak starts.
MaxSoakRooms == 3

\* the values of the flag --room-count
RoomCounts == {0, 1, 2}

\* variant: the channel has room for one slot more
counterCap_OneMore(roomCount) == roomCount + 1

\* counter := make(chan struct{}, roomCount)
counterCap(roomCount) == roomCount

SoakFrame ==
    UNCHANGED <<lobbyVars, serviceVars, queryVars, groupVars, filterVars, repoVars,
                roomVars, decodeVars>>

\* the goroutines in the given state
Goroutines(st) == {g \in DOMAIN goroutines : goroutines[g] = st}

\* runSoak up to its loop: a room count below 1 is an error
RunSoakStart ==
    /\ mainPc = "idle"
    /\ mainPc' = IF counter.roomCount < 1 THEN "returned" ELSE "select"
    /\ counter' = [counter EXCEPT !.cap = counterCap(counter.roomCount)]
    /\ UNCHANGED <<goroutines, soakN>>
    /\ SoakFrame

\* case counter <- struct{}{}: a slot is acquired
MainAcquire ==
    /\ mainPc = "select"
    /\ soakN < MaxSoakRooms
    /\ counter.len < counter.cap
    /\ counter' = [counter EXCEPT !.len = @ + 1]
    /\ mainPc' = "spawn"
    /\ UNCHANGED <<goroutines, soakN>>
    /\ SoakFrame

\* wg.Add(1), go func(n), time.Sleep, n++: the goroutine of room n starts runRoom
MainSpawn ==
    /\ mainPc = "spawn"
    /\ goroutines' = Append(goroutines, "run")
    /\ soakN' = soakN + 1
    /\ mainPc' = "select"
    /\ UNCHANGED counter
    /\ SoakFrame

\* case err := <-ech: a goroutine hands over the error of its room; cancel, return
MainErr(g) ==
    /\ mainPc = "select"
    /\ goroutines[g] = "report"
    /\ goroutines' = [goroutines EXCEPT ![g] = "done"]
    /\ mainPc' = "wait"
    /\ UNCHANGED <<counter, soakN>>
    /\ SoakFrame

\* case <-ctx.Done(): return ctx.Err()
MainCtxDone ==
    /\ mainPc = "select"
    /\ mainPc' = "wait"
    /\ UNCHANGED <<counter, goroutines, soakN>>
    /\ SoakFrame

\* the deferred cancel() and wg.Wait() of runSoak: it returns once every goroutine
\* has called wg.Done()
MainWait ==
    /\ mainPc = "wait"
    /\ \A g \in DOMAIN goroutines : goroutines[g] = "released"
    /\ mainPc' = "returned"
    /\ UNCHANGED <<counter, goroutines, soakN>>
    /\ SoakFrame

\* runRoom returns: with an error the goroutine goes on to ech <- err
RunRoomReturns(g) ==
    /\ goroutines[g] = "run"
    /\ \E err \in BOOLEAN :
         goroutines' = [goroutines EXCEPT ![g] = IF err THEN "report" ELSE "done"]
    /\ UNCHANGED <<counter, mainPc, soakN>>
    /\ SoakFrame

\* wg.Done() and <-counter: the slot is released
Release(g) ==
    /\ goroutines[g] = "done"
    /\ goroutines' = [goroutines EXCEPT ![g] = "released"]
    /\ counter' = [counter EXCEPT !.len = @ - 1]
    /\ UNCHANGED <<mainPc, soakN>>
    /\ SoakFrame

InitSoak ==
    /\ \E rc \in RoomCounts : counter = [roomCount |-> rc, cap |-> 0, len |-> 0]
    /\ goroutines = <<>>
    /\ mainPc = "idle"
    /\ soakN = 0
    /\ LobbyIdle
    /\ ServiceIdle
    /\ QueryIdle
    /\ GroupIdle
    /\ FilterIdle
    /\ RepoIdle
    /\ RoomIdle
    /\ DecodeIdle

NextSoak ==
    \/ RunSoakStart
    \/ MainAcquire
    \/ MainSpawn
    \/ MainCtxDone
    \/ MainWait
    \/ \E g \in DOMAIN goroutines :
          \/ MainErr(g)
          \/ RunRoomReturns(g)
          \/ Release(g)

SpecSoak == InitSoak /\ [][NextSoak]_vars

\* the goroutines runSoak can have started
SoakRooms == 1..MaxSoakRooms

\* runSoak and its goroutines each go on whenever they can: a returning runRoom, a
\* send or a receive that has its partner, a wait that is over
SpecSoakFair ==
    /\ InitSoak
    /\ [][NextSoak]_vars
    /\ WF_vars(MainWait)
    /\ \A g \in SoakRooms :
          /\ WF_vars(g \in DOMAIN goroutines /\ RunRoomReturns(g))
          /\ WF_vars(g \in DOMAIN goroutines /\ Release(g))
          /\ WF_vars(g \in DOMAIN goroutines /\ MainErr(g))

(* ----------------------------- claims: soak --------------------------- *)

\* C27: in the soak test the number of rooms running concurrently never exceeds the
\* configured room count: a room is started only after a slot is acquired, and its
\* slot is released only after its run has finished (every goroutine that has not
\* released holds one slot, and so does the room about to be started).
C27_RoomsWithinCount ==
    /\ Cardinality(Goroutines("run")) <= counter.roomCount
    /\ counter.len = Cardinality(DOMAIN goroutines \ Goroutines("released"))
                        + (IF mainPc = "spawn" THEN 1 ELSE 0)
    /\ counter.len <= counter.roomCount

\* with room count 2, two rooms run after an earlier room has released its slot
C27_Witness ==
    /\ counter.roomCount = 2
    /\ Len(goroutines) = 3
    /\ goroutines[1] = "released"
    /\ goroutines[2] = "run"
    /\ goroutines[3] = "run"

\* C35: runSoak eventually returns after a room has reported an error or the context
\* is cancelled, for any number of rooms failing at the same time: no goroutine stays
\* blocked sending on the error channel, and the final wait for the goroutines ends.
C35_RunSoakReturns == (mainPc = "wait") ~> (mainPc = "returned")

(* --------------------------- UnmarshalRecursive ----------------------- *)

TypeObj == 15

TypeDict == 17

\* Most values side by side: in src, in a body, in a list.
MaxVals == 2

(* The values the inputs encode, as trees: Null, a Byte, a value with an   *)
(* unknown tag ("bad"), an Obj with the values of its body, a List with    *)
(* the values of each element, a Dict of one key with the values stored    *)
(* under it.                                                               *)

Leaves == {[k |-> "null"], [k |-> "byte", v |-> 7], [k |-> "bad"]}

LeafSeqs == SeqsUpTo(Leaves, MaxVals)

ObjOf(body) == [k |-> "obj", ClassId |-> 1, body |-> body]

ListOf(es) == [k |-> "list", es |-> es]

DictOf(val) == [k |-> "dict", key |-> <<97>>, val |-> val]

\* containers of leaves
Flat ==
    {ObjOf(b) : b \in LeafSeqs} \cup {DictOf(b) : b \in LeafSeqs}
    \cup {ListOf(<<b>>) : b \in LeafSeqs}
    \cup {ListOf(<<b, c>>) : b, c \in SeqsUpTo(Leaves, 1)}

\* containers of one container of leaves
Nested ==
    {ObjOf(<<v>>) : v \in Flat} \cup {DictOf(<<v>>) : v \in Flat}
    \cup {ListOf(<<<<v>>>>) : v \in Flat}

\* a Dict of leaves in a List in an Obj
Deep == {ObjOf(<<ListOf(<<<<DictOf(b)>>>>)>>) : b \in LeafSeqs}

\* the values that stand side by side at the top of src
TopVals ==
    {[k |-> "null"], [k |-> "bad"], ObjOf(<<>>), ObjOf(<<[k |-> "byte", v |-> 7]>>),
     ListOf(<<<<[k |-> "null"]>>>>), DictOf(<<[k |-> "null"], [k |-> "byte", v |-> 7]>>)}

Inputs ==
    {<<v>> : v \in Leaves \cup Flat \cup Nested \cup Deep} \cup SeqsUpTo(TopVals, MaxVals)

\* the bytes of a tree, and of trees side by side
RECURSIVE MarshalTree(_), MarshalTrees(_)
MarshalTree(t) ==
    CASE t.k = "null" -> <<TypeNull>>
      [] t.k = "byte" -> <<TypeByte, t.v>>
      [] t.k = "bad" -> <<255>>   \* a tag no type has
      [] t.k = "obj" ->
            LET body == MarshalTrees(t.body)
            IN  <<TypeObj, t.ClassId>> \o U16(Len(body)) \o body
      [] t.k = "list" -> MarshalList([i \in 1..Len(t.es) |-> MarshalTrees(t.es[i])])
      [] t.k = "dict" ->
            LET val == MarshalTrees(t.val)
            IN  <<TypeDict, 1, Len(t.key)>> \o t.key \o U16(Len(val)) \o val

MarshalTrees(ts) == IF ts = <<>> THEN <<>> ELSE MarshalTree(Head(ts)) \o MarshalTrees(Tail(ts))

UnmarshalError(n) == [err |-> TRUE, n |-> n, v |-> [t |-> "nil"]]

\* the entries of a Dict body: {u8 key length, key, u16 value length, value}; a
\* size below 0 marks a body that ends early
RECURSIVE DictBody(_, _)
DictBody(b, n) ==
    IF n = 0 THEN <<>>
    ELSE IF Len(b) < 1 \/ Len(b) < 3 + b[1] \/ Len(b) < 3 + b[1] + GetU16(b, 2 + b[1])
    THEN <<[key |-> <<>>, val |-> <<>>, size |-> -1]>>
    ELSE LET kl == b[1]
             vl == GetU16(b, 2 + kl)
         IN  <<[key |-> SubSeq(b, 2, 1 + kl), val |-> SubSeq(b, 4 + kl, 3 + kl + vl),
                size |-> 3 + kl + vl]>>
             \o DictBody(SubSeq(b, 4 + kl + vl, Len(b)), n - 1)

\* the bytes n length-prefixed elements take
RECURSIVE Prefixed(_)
Prefixed(es) == IF es = <<>> THEN 0 ELSE 2 + Len(Head(es)) + Prefixed(Tail(es))

\* binary.Unmarshal(src): the first value, the number of bytes consumed, an error on
\* empty or truncated input and on an unknown tag. An Obj keeps its body, a List
\* its elements and a Dict its values as bytes.
Unmarshal(src) ==
    IF src = <<>> THEN UnmarshalError(0)
    ELSE CASE src[1] = TypeNull -> [err |-> FALSE, n |-> 1, v |-> [t |-> "null"]]
           [] src[1] = TypeByte ->
                IF Len(src) < 2 THEN UnmarshalError(0)
                ELSE [err |-> FALSE, n |-> 2, v |-> [t |-> "byte", v |-> src[2]]]
           [] src[1] = TypeObj ->
                IF Len(src) < 4 \/ Len(src) < 4 + GetU16(src, 3) THEN UnmarshalError(0)
                ELSE [err |-> FALSE, n |-> 4 + GetU16(src, 3),
                      v |-> [t |-> "Obj", ClassId |-> src[2],
                             Body |-> SubSeq(src, 5, 4 + GetU16(src, 3))]]
           [] src[1] = TypeList ->
                IF Len(src) < 3 THEN UnmarshalError(0)
                ELSE LET es == ListBody(SubSeq(src, 4, Len(src)), GetU16(src, 2))
                     IN  IF \E i \in 1..Len(es) : es[i] = ShortBody THEN UnmarshalError(0)
                         ELSE [err |-> FALSE, n |-> 3 + Prefixed(es),
                               v |-> [t |-> "List", es |-> es]]
           [] src[1] = TypeDict ->
                IF Len(src) < 2 THEN UnmarshalError(0)
                ELSE LET kvs == DictBody(SubSeq(src, 3, Len(src)), src[2])
                     IN  IF \E i \in 1..Len(kvs) : kvs[i].size < 0 THEN UnmarshalError(0)
                         ELSE [err |-> FALSE,
                               n |-> 2 + Prefixed([i \in 1..Len(kvs) |->
                                                     [j \in 1..(kvs[i].size - 2) |-> 0]]),
                               v |-> [t |-> "Dict", kvs |-> kvs]]
           [] OTHER -> UnmarshalError(0)

\* variant: the first value is returned whatever follows it
oneValue_Always(n, len) == TRUE

\* if n >= len(src) { return u, nil }
oneValue(n, len) == n >= len

Failure == [err |-> TRUE, v |-> [t |-> "nil"]]

\* the results of a loop of calls: the error of the first that failed, else the values
Collect(rs) ==
    IF \E i \in 1..Len(rs) : rs[i].err THEN Failure
    ELSE [err |-> FALSE, v |-> [t |-> "list", es |-> [i \in 1..Len(rs) |-> rs[i].v]]]

RECURSIVE UnmarshalRecursive(_), unmarshalRecursive(_), unmarshalRest(_)

\* UnmarshalRecursive(src): the value when src holds one, the list of the values
\* otherwise
UnmarshalRecursive(src) ==
    IF Len(src) = 0 THEN Failure
    ELSE LET first == unmarshalRecursive(src)
         IN  IF first.err THEN Failure
             ELSE IF oneValue(first.n, Len(src)) THEN [err |-> FALSE, v |-> first.v]
             ELSE Collect(<<first>> \o unmarshalRest(SubSeq(src, first.n + 1, Len(src))))

\* the loop of UnmarshalRecursive over the rest of src: for len(src) > 0
unmarshalRest(src) ==
    IF Len(src) = 0 THEN <<>>
    ELSE LET u == unmarshalRecursive(src)
         IN  IF u.err THEN <<u>>
             ELSE <<u>> \o unmarshalRest(SubSeq(src, u.n + 1, Len(src)))

\* unmarshalRecursive(src): the first value of src with its Obj, Dict and List
\* bodies decoded, and the number of bytes it takes
unmarshalRecursive(src) ==
    LET u == Unmarshal(src)
    IN  IF u.err THEN UnmarshalError(u.n)
        ELSE CASE u.v.t = "Obj" ->
                    IF Len(u.v.Body) = 0
                    THEN [err |-> FALSE, n |-> u.n,
                          v |-> [t |-> "RawObj", ClassId |-> u.v.ClassId, Body |-> [t |-> "nil"]]]
                    ELSE LET b == UnmarshalRecursive(u.v.Body)
                         IN  IF b.err THEN UnmarshalError(u.n)
                             ELSE [err |-> FALSE, n |-> u.n,
                                   v |-> [t |-> "RawObj", ClassId |-> u.v.ClassId, Body |-> b.v]]
               [] u.v.t = "Dict" ->
                    LET vs == [i \in 1..Len(u.v.kvs) |-> UnmarshalRecursive(u.v.kvs[i].val)]
                    IN  IF \E i \in 1..Len(vs) : vs[i].err THEN UnmarshalError(u.n)
                        ELSE [err |-> FALSE, n |-> u.n,
                              v |-> [t |-> "map",
                                     m |-> {[key |-> u.v.kvs[i].key, val |-> vs[i].v] :
                                              i \in 1..Len(vs)}]]
               [] u.v.t = "List" ->
                    LET vs == [i \in 1..Len(u.v.es) |-> UnmarshalRecursive(u.v.es[i])]
                    IN  IF \E i \in 1..Len(vs) : vs[i].err THEN UnmarshalError(u.n)
                        ELSE [err |-> FALSE, n |-> u.n,
                              v |-> [t |-> "list", es |-> [i \in 1..Len(vs) |-> vs[i].v]]]
               [] OTHER -> u

DecodeFrame ==
    UNCHANGED <<lobbyVars, serviceVars, queryVars, groupVars, filterVars, repoVars,
                roomVars, soakVars>>

NotCalled == [called |-> FALSE, err |-> FALSE, v |-> [t |-> "nil"]]

Decode ==
    /\ ~uret.called
    /\ uret' = [called |-> TRUE, err |-> UnmarshalRecursive(usrc.src).err,
                v |-> UnmarshalRecursive(usrc.src).v]
    /\ UNCHANGED usrc
    /\ DecodeFrame

InitDecode ==
    /\ \E ts \in Inputs : usrc = [vals |-> ts, src |-> MarshalTrees(ts)]
    /\ uret = NotCalled
    /\ LobbyIdle
    /\ ServiceIdle
    /\ QueryIdle
    /\ GroupIdle
    /\ FilterIdle
    /\ RepoIdle
    /\ RoomIdle
    /\ SoakIdle

NextDecode == Decode

SpecDecode == InitDecode /\ [][NextDecode]_vars

(* ------------------------ claims: UnmarshalRecursive ------------------ *)

\* what the trees decode to: a tree alone to its value, several to the list of theirs
RECURSIVE Decoded(_), DecodedAll(_)
Decoded(t) ==
    CASE t.k = "null" -> [t |-> "null"]
      [] t.k = "byte" -> [t |-> "byte", v |-> t.v]
      [] t.k = "obj" ->
            [t |-> "RawObj", ClassId |-> t.ClassId,
             Body |-> IF t.body = <<>> THEN [t |-> "nil"] ELSE DecodedAll(t.body)]
      [] t.k = "list" -> [t |-> "list", es |-> [i \in 1..Len(t.es) |-> DecodedAll(t.es[i])]]
      [] t.k = "dict" -> [t |-> "map", m |-> {[key |-> t.key, val |-> DecodedAll(t.val)]}]
      [] OTHER -> [t |-> "nil"]

DecodedAll(ts) ==
    IF Len(ts) = 1 THEN Decoded(ts[1])
    ELSE [t |-> "list", es |-> [i \in 1..Len(ts) |-> Decoded(ts[i])]]

\* a value with an unknown tag stands somewhere in the trees
RECURSIVE Undecodable(_)
Undecodable(ts) ==
    \E i \in 1..Len(ts) :
        CASE ts[i].k = "bad" -> TRUE
          [] ts[i].k = "obj" -> Undecodable(ts[i].body)
          [] ts[i].k = "list" -> \E j \in 1..Len(ts[i].es) : Undecodable(ts[i].es[j])
          [] ts[i].k = "dict" -> Undecodable(ts[i].val)
          [] OTHER -> FALSE

\* C30: UnmarshalRecursive fails on empty input; otherwise it fails or returns the
\* full decoding of src, the value when src holds one and the list of the values in
\* order when it holds several, with Obj, Dict and List bodies decoded at every
\* depth; a decode error at any depth fails the whole call.
C30_UnmarshalRecursive ==
    uret.called =>
        /\ usrc.src = <<>> => uret.err
        /\ Undecodable(usrc.vals) => uret.err
        /\ ~uret.err => uret.v = DecodedAll(usrc.vals)

\* a Dict in a List in an Obj has been decoded
C30_Witness ==
    /\ uret.called
    /\ ~uret.err
    /\ usrc.vals = <<ObjOf(<<ListOf(<<<<DictOf(<<[k |-> "null"], [k |-> "byte", v |-> 7]>>)>>>>)>>)>>
    /\ uret.v.Body.es[1].m = {[key |-> <<97>>,
                                val |-> [t |-> "list", es |-> <<[t |-> "null"], [t |-> "byte", v |-> 7]>>]]}

=============================================================================
